---- MODULE Spec2Model ----
(***************************************************************************)
(* A model of the remote command executor (SSHService.executeCommands),    *)
(* the node lifecycle orchestration around it (deployNode, the /deploy and *)
(* /command route handlers and the stored deploy status) and the status    *)
(* poller (NodeService.watchLiteNodes / watchBobNodes).                    *)
(***************************************************************************)
EXTENDS Integers, Sequences, FiniteSets, TLC

\* ------------------------------------------------------------------ bounds
NumCalls == 2
MaxCmds == 2
MaxChunks == 2
NumOps == 2
MaxLines == 2
MaxTick == 2
MaxTime == 3
MaxN == 3
MaxParts == 3
MaxRam == 64
NumReqs == 2

Hosts == {"h1", "h2"}
Servers == {"h1", "h2", "h3"}
Calls == 1..NumCalls
NoCall == 0

\* --------------------------------------------------------------- variables
VARIABLES
    isExecutingCommandsMap, \* _isExecutingCommandsMap: host -> boolean
    cleanUpSSHMap,          \* host -> the call whose conn.end() closure is registered (NoCall: no entry)
    calls,                  \* one record per executeCommands invocation (its locals and its position)
    deployStatus,           \* the stored deployStatus of every server document: host -> service -> status
    ops,                    \* one record per orchestrator request (deploy, restart, shutdown)
    currentNodes,           \* _currentLiteNodes / _currentBobNodes: kind -> registered servers
    status,                 \* _status.liteServers / _status.bobServers: kind -> server -> entry
    watch,                  \* kind -> the watch loop's position, snapshot and probe results
    now,                    \* Date.now()
    passcode,               \* the passcode field of the registered Lite nodes: server -> passcode
    network,                \* what the last getNetworkStatus call returned
    sel,                    \* the locals and the position of a getRandomLiteNode / getRandomBobNode call
    built,                  \* the argument and the result of a call of a script builder
    db,                     \* the liteNodes / bobNodes collections: kind -> stored servers
    reqs,                   \* one record per server-list request (add, delete) and its pullServerLists call
    socket,                 \* a client socket of the socket server: its connection and its log subscription
    fan,                    \* an operator command fanned out to servers: the handler's counters and the command log's status
    snap                    \* the locals and the position of watchAndSaveSnapshot

execVars == <<isExecutingCommandsMap, cleanUpSSHMap, calls>>
deployVars == <<deployStatus, ops>>
adminVars == <<db, reqs, socket, fan, snap>>
queryVars == <<network, sel, built, adminVars>>
pollVars == <<currentNodes, status, watch, now, passcode, network, sel, built, adminVars>>
vars == <<isExecutingCommandsMap, cleanUpSSHMap, calls, deployStatus, ops,
          currentNodes, status, watch, now, passcode, network, sel, built, db, reqs, socket, fan, snap>>

\* ------------------------------------------------------------ pure helpers
EmptyMap == [k \in {} |-> <<>>]

\* (m[k] || "")
Bucket(m, k) == IF k \in DOMAIN m THEN m[k] ELSE <<>>

\* m[k] = (m[k] || "") + x
AppendTo(m, k, x) ==
    [kk \in (DOMAIN m) \cup {k} |-> IF kk = k THEN Bucket(m, k) \o x ELSE m[kk]]

\* haystack.includes(needle)
Includes(haystack, needle) ==
    \E i \in 1..(Len(haystack) - Len(needle) + 1) :
        SubSeq(haystack, i, i + Len(needle) - 1) = needle

\* Output is a sequence of tokens: "o" ordinary text, "G" and "Q" the two halves
\* of the sentinel text GETHERE@qdone_signal, "e" an ANSI escape sequence.
expectedDoneSignalStr == <<"G", "Q">>
IsAnsi(t) == t = "e"
stripAnsi(s) == SelectSeq(s, LAMBDA t : ~IsAnsi(t))

\* The chunks a remote shell may deliver in one "data" event.
Chunks == {<<"o">>, <<"G", "Q">>, <<"G">>, <<"Q">>, <<"G", "e", "Q">>}

\* The caller's command arrays.
CmdName(i) == IF i = 1 THEN "c1" ELSE IF i = 2 THEN "c2" ELSE "c3"
CallerCommands == {[i \in 1..n |-> CmdName(i)] : n \in 1..MaxCmds}
Timeouts == {0, 1}

\* Error messages (error.message of the Error objects the ssh2 client or the timer raises).
TimeoutMsg == "SSH command timeout"
ConnErrors == {"connect ECONNREFUSED", "All configured authentication methods failed"}
ChannelOpenMsg == "(SSH) Channel open failure"
ConnectThrowMsg == "Cannot parse privateKey"

IdleCall ==
    [pc |-> "idle", host |-> "h1", isNonInteractive |-> FALSE, timeout |-> 0,
     callerCommands |-> <<>>, commands |-> <<>>, written |-> <<>>,
     stdouts |-> EmptyMap, stderrs |-> EmptyMap,
     isSuccess |-> FALSE, isFinallyDone |-> FALSE, isDoneSignalReceived |-> FALSE,
     totalExecuted |-> 0, chan |-> <<>>, streamOpen |-> FALSE,
     timerArmed |-> FALSE, connEnded |-> FALSE, nChunks |-> 0,
     setup |-> "none", setupSuccess |-> FALSE, sent |-> <<>>,
     array |-> 0, ran |-> 0, remoteFailed |-> FALSE]

\* MongoDbTypes.ServiceType and MongoDbTypes.NodeStatus; "none": the field is unset.
Services == {"liteNode", "bobNode"}
NodeStatus == {"setting_up", "active", "error", "stopped", "restarting"}
Ops == 1..NumOps

IdleOp ==
    [pc |-> "idle", kind |-> "none", host |-> "h1", service |-> "liteNode",
     currentServer |-> [s \in Services |-> "none"], isSuccess |-> FALSE, error |-> "none"]

ExecInit ==
    /\ isExecutingCommandsMap = [h \in Hosts |-> FALSE]
    /\ cleanUpSSHMap = [h \in Hosts |-> NoCall]
    /\ calls = [c \in Calls |-> IdleCall]

DeployInit ==
    /\ deployStatus = [h \in Hosts |-> [s \in Services |-> "none"]]
    /\ ops = [o \in Ops |-> IdleOp]

\* Ticks and epochs a node may report; -1 is what a failed probe yields.
Ticks == 0..MaxTick
Epochs == {1, 2}
Unreachable == -1

\* A status entry that does not exist (_status.liteServers[server] === undefined).
NoEntry == [present |-> FALSE]
NoLiteInfo == [tick |-> Unreachable, epoch |-> Unreachable]
NoBobInfo == [currentFetchingTick |-> Unreachable, currentProcessingEpoch |-> Unreachable]

\* No getRandomLiteNode / getRandomBobNode call has been made.
IdleSel ==
    [pc |-> "idle", kind |-> "liteNode", isNeedLoggingPasscode |-> FALSE, requested |-> 0,
     n |-> 0, servers |-> <<>>, numberOfActiveNodes |-> 0, usedIndices |-> {},
     selectedServers |-> <<>>]

PollInit ==
    /\ currentNodes = [k \in Services |-> {}]
    /\ status = [k \in Services |-> [s \in Servers |-> NoEntry]]
    /\ watch = [k \in Services |-> [pc |-> "idle", servers |-> {}, deleted |-> {}, results |-> <<>>]]
    /\ now = 1
    /\ passcode = [s \in Servers |-> ""]
    /\ network = [tick |-> 0, epoch |-> 0]
    /\ sel = IdleSel

\* No script builder has been called.
NoBuild == [fn |-> "none", pc |-> "returned"]

BuildInit == built = NoBuild

\* No server-list request is running; the collections are empty.
Reqs == 1..NumReqs
IdleReq == [pc |-> "idle", server |-> "none", kinds |-> {}, lite |-> {}, bob |-> {}]
\* A connected socket that has subscribed to nothing (socket.host is undefined).
NewSocket == [connected |-> TRUE, isSubscribedToLogs |-> FALSE, host |-> "none"]
\* No operator command has been fanned out.
NoFan ==
    [route |-> "none", servers |-> {}, reports |-> [s \in Servers |-> "none"],
     commandsExecuted |-> 0, haveAtleastOneError |-> FALSE, status |-> "none"]
\* watchAndSaveSnapshot before its first round.
SnapStart ==
    [pc |-> "top", numberOfNodesPerSave |-> 0, currentPendingNodes |-> <<>>,
     nodesToSave |-> <<>>, last |-> "none"]
AdminInit ==
    /\ db = [k \in Services |-> {}]
    /\ reqs = [p \in Reqs |-> IdleReq]
    /\ socket = NewSocket
    /\ fan = NoFan
    /\ snap = SnapStart

Init ==
    /\ ExecInit
    /\ DeployInit
    /\ PollInit
    /\ BuildInit
    /\ AdminInit

\* ------------------------------------------------- lock (part_013:425-435)
\* A wait loop that never sees the lock taken.
lockNeverBusy(h) == FALSE

\* A single lock for all hosts.
anyLockBusy(h) == \E g \in Hosts : isExecutingCommandsMap[g]

\* while (_isExecutingCommandsMap[host]) { await sleep(100) }: the loop condition
lockBusy(h) == isExecutingCommandsMap[h]

\* A release that leaves the map as it is.
keepLock(m, h) == m

\* _isExecutingCommandsMap[host] = false
releaseExecutionLock(m, h) == [m EXCEPT ![h] = FALSE]

\* ------------------------------------- event handlers of executeCommands
\* A settle that does not end the connection.
noCleanUp(cs, h) == cs

\* if (cleanUpSSHMap[host]) cleanUpSSHMap[host]()  -- the registered closure calls conn.end()
runCleanUp(cs, h) ==
    IF cleanUpSSHMap[h] # NoCall
    THEN [cs EXCEPT ![cleanUpSSHMap[h]].connEnded = TRUE]
    ELSE cs

\* A done handler that reports success whatever the sentinel flag says.
onDoneAlways(cs, c, flag) ==
    IF cs[c].isFinallyDone THEN cs
    ELSE [cs EXCEPT ![c].isSuccess = TRUE, ![c].isFinallyDone = TRUE, ![c].pc = "settled"]

\* A done handler without the isFinallyDone test.
onDoneAgain(cs, c, flag) ==
    [runCleanUp(cs, cs[c].host) EXCEPT
        ![c].isSuccess = flag,
        ![c].isFinallyDone = TRUE,
        ![c].pc = IF cs[c].pc = "returned" THEN "returned" ELSE "settled"]

\* emitter.on("done", ({isDoneSignalReceived}) => ...)
onDone(cs, c, flag) ==
    IF cs[c].isFinallyDone THEN cs
    ELSE [runCleanUp(cs, cs[c].host) EXCEPT
             ![c].isSuccess = flag,
             ![c].isFinallyDone = TRUE,
             ![c].pc = "settled"]

\* An error handler that drops the error message.
onErrorSilent(cs, c, msg) ==
    IF cs[c].isFinallyDone THEN cs
    ELSE [cs EXCEPT ![c].isSuccess = FALSE, ![c].isFinallyDone = TRUE, ![c].pc = "settled"]

\* emitter.on("error", (error) => ...)
onError(cs, c, msg) ==
    IF cs[c].isFinallyDone THEN cs
    ELSE [runCleanUp(cs, cs[c].host) EXCEPT
             ![c].isSuccess = FALSE,
             ![c].isFinallyDone = TRUE,
             ![c].pc = "settled",
             ![c].stderrs = AppendTo(cs[c].stderrs, "shell", <<msg>>)]

\* handleOnData(data, command?) / handleOnErrorData(data, command?): the bucket key
bucketKey(command) == IF command # "" THEN command ELSE "shell"

\* commands.unshift / commands.push change the array the caller passed: the
\* calls that were given the same array (array is its identity, 0 for an
\* array that no other call has) and are still to read it see what call c
\* has made of it.
sameArray(cs, c) ==
    [c2 \in Calls |->
        IF /\ c2 # c
           /\ cs[c].array # 0
           /\ cs[c2].array = cs[c].array
           /\ cs[c2].pc \in {"waiting", "connecting", "opening"}
        THEN [cs[c2] EXCEPT !.commands = cs[c].commands]
        ELSE cs[c2]]

\* commands.unshift("set -e"); commands.unshift("QDONE=qdone_signal");
\* commands.push(`echo "GETHERE@$QDONE"`)
wrapCommands(commands) ==
    <<"QDONE=qdone_signal", "set -e">> \o commands \o <<"echo GETHERE@$QDONE">>

\* The body of executeCommands from the acquired lock to the await of the
\* settle promise: lock set, "exec 2>&1" unshifted, the filter whose result is
\* dropped, the cleanUpSSHMap registration, conn.connect and the timer.
\* connectThrows: conn.connect throws synchronously (caught by the catch block).
beginSession(cs, c, rec, connectThrows) ==
    LET cmds == <<"exec 2>&1">> \o rec.commands
        r1 == [rec EXCEPT !.commands = cmds]
    IN  sameArray([cs EXCEPT ![c] =
              IF connectThrows
              THEN [r1 EXCEPT !.pc = "settled", !.isSuccess = FALSE,
                       !.stderrs = AppendTo(r1.stderrs, "shell", <<ConnectThrowMsg>>)]
              ELSE [r1 EXCEPT !.pc = "connecting", !.timerArmed = (rec.timeout > 0)]], c)

BeginSession(c, rec, connectThrows) ==
    /\ isExecutingCommandsMap' = [isExecutingCommandsMap EXCEPT ![rec.host] = TRUE]
    /\ cleanUpSSHMap' = [cleanUpSSHMap EXCEPT ![rec.host] = c]
    /\ calls' = beginSession(calls, c, rec, connectThrows)
    /\ UNCHANGED <<deployVars, pollVars>>

\* A caller invokes executeCommands(host, ..., commands, timeout, {isNonInteractive}).
\* _accquireExecutionLock runs synchronously up to its first await: a free lock is
\* taken at once, a busy one sends the call into the polling wait.
StartCall(c, rec) ==
    IF lockBusy(rec.host)
    THEN /\ calls' = [calls EXCEPT ![c] = [rec EXCEPT !.pc = "waiting"]]
         /\ UNCHANGED <<isExecutingCommandsMap, cleanUpSSHMap, deployVars, pollVars>>
    ELSE \E th \in BOOLEAN : BeginSession(c, rec, th)

ExecuteCommands(c, h, ni, t, cmds) ==
    /\ calls[c].pc \in {"idle", "returned"}
    /\ StartCall(c, [IdleCall EXCEPT !.host = h, !.isNonInteractive = ni, !.timeout = t,
                                     !.callerCommands = cmds, !.commands = cmds])

\* The 100 ms timer of the wait loop fires: the loop condition is read again.
PollLock(c) ==
    /\ calls[c].pc = "waiting"
    /\ IF lockBusy(calls[c].host)
       THEN UNCHANGED vars
       ELSE \E th \in BOOLEAN : BeginSession(c, calls[c], th)

\* conn.on("ready"): the interactive branch wraps the commands and asks for a
\* shell; the non-interactive branch calls conn.exec for every command in one go.
Ready(c) ==
    /\ calls[c].pc = "connecting"
    /\ calls' = sameArray([calls EXCEPT ![c] =
          IF ~calls[c].isNonInteractive
          THEN [@ EXCEPT !.pc = "opening", !.commands = wrapCommands(@)]
          ELSE [@ EXCEPT !.pc = "exec",
                         !.isDoneSignalReceived = TRUE,
                         !.chan = [i \in 1..Len(calls[c].commands) |-> "open"]]], c)
    /\ UNCHANGED <<isExecutingCommandsMap, cleanUpSSHMap, deployVars, pollVars>>

\* conn.shell callback without error: handlers attached, every command written, then "exit".
ShellOpened(c) ==
    /\ calls[c].pc = "opening"
    /\ calls' = [calls EXCEPT ![c].pc = "shell", ![c].streamOpen = TRUE,
                              ![c].written = calls[c].commands \o <<"exit">>]
    /\ UNCHANGED <<isExecutingCommandsMap, cleanUpSSHMap, deployVars, pollVars>>

\* conn.shell callback with err: emitter.emit("error", err)
ShellOpenErr(c) ==
    /\ calls[c].pc = "opening"
    /\ calls' = onError(calls, c, ChannelOpenMsg)
    /\ UNCHANGED <<isExecutingCommandsMap, cleanUpSSHMap, deployVars, pollVars>>

\* stream.on("data") of the shell: the sentinel is looked for in this chunk alone,
\* then handleOnData appends the ANSI-stripped chunk to stdouts["shell"].
onShellData(r, data) ==
    [r EXCEPT !.isDoneSignalReceived = @ \/ Includes(data, expectedDoneSignalStr),
              !.stdouts = AppendTo(@, bucketKey(""), stripAnsi(data)),
              !.sent = @ \o data,
              !.nChunks = @ + 1]

\* The remote shell sends a chunk of output.
ShellData(c, data) ==
    /\ calls[c].streamOpen
    /\ calls[c].pc = "shell"
    /\ calls[c].nChunks < MaxChunks
    /\ calls' = [calls EXCEPT ![c] = onShellData(@, data)]
    /\ UNCHANGED <<isExecutingCommandsMap, cleanUpSSHMap, deployVars, pollVars>>

\* stream.on("close") of the shell: emitter.emit("done", {isDoneSignalReceived})
ShellClose(c) ==
    /\ calls[c].streamOpen
    /\ calls' = onDone([calls EXCEPT ![c].streamOpen = FALSE], c, calls[c].isDoneSignalReceived)
    /\ UNCHANGED <<isExecutingCommandsMap, cleanUpSSHMap, deployVars, pollVars>>

\* Exit codes an exec channel may close with (0: success).
ExitCodes == {0, 1}
closedWith(code) == IF code = 0 THEN "closed0" ELSE "closedN"

\* conn.exec callback with err for command i: emitter.emit("error", err)
ExecOpenErr(c, i) ==
    /\ calls[c].pc = "exec"
    /\ i \in DOMAIN calls[c].chan
    /\ calls[c].chan[i] = "open"
    /\ calls[c].commands[i] \notin (DOMAIN calls[c].stdouts) \cup (DOMAIN calls[c].stderrs)
    /\ calls' = onError([calls EXCEPT ![c].chan[i] = "failed"], c, ChannelOpenMsg)
    /\ UNCHANGED <<isExecutingCommandsMap, cleanUpSSHMap, deployVars, pollVars>>

\* stream.on("data") / stream.stderr.on("data") of command i's exec channel:
\* handleOnData(data, command) / handleOnErrorData(data, command)
ExecData(c, i, isStderr) ==
    /\ calls[c].pc = "exec"
    /\ i \in DOMAIN calls[c].chan
    /\ calls[c].chan[i] = "open"
    /\ LET command == calls[c].commands[i]
       IN  /\ command \notin (DOMAIN calls[c].stdouts) \cup (DOMAIN calls[c].stderrs)
           /\ calls' = [calls EXCEPT ![c] =
                 IF isStderr
                 THEN [@ EXCEPT !.stderrs = AppendTo(@, bucketKey(command), <<"o">>)]
                 ELSE [@ EXCEPT !.stdouts = AppendTo(@, bucketKey(command), stripAnsi(<<"o">>))]]
    /\ UNCHANGED <<isExecutingCommandsMap, cleanUpSSHMap, deployVars, pollVars>>

\* stream.on("close", code) of command i's exec channel
ExecClose(c, i, code) ==
    /\ calls[c].pc \in {"exec", "settled"}
    /\ i \in DOMAIN calls[c].chan
    /\ calls[c].chan[i] = "open"
    /\ LET r == calls[c]
           flag == IF code # 0 THEN FALSE ELSE r.isDoneSignalReceived
           total == r.totalExecuted + 1
           cs == [calls EXCEPT ![c].chan[i] = closedWith(code),
                               ![c].isDoneSignalReceived = flag,
                               ![c].totalExecuted = total]
       IN  calls' = IF total = Len(r.commands) THEN onDone(cs, c, flag) ELSE cs
    /\ UNCHANGED <<isExecutingCommandsMap, cleanUpSSHMap, deployVars, pollVars>>

\* conn.on("error"): connection refused, authentication failure, ...
ConnError(c, msg) ==
    /\ calls[c].pc \in {"connecting", "opening", "shell", "exec"}
    /\ calls' = onError(calls, c, msg)
    /\ UNCHANGED <<isExecutingCommandsMap, cleanUpSSHMap, deployVars, pollVars>>

\* The setTimeout callback: if (isFinallyDone) return; emitter.emit("error", new Error("SSH command timeout"))
TimeoutFire(c) ==
    /\ calls[c].timerArmed
    /\ calls' = onError([calls EXCEPT ![c].timerArmed = FALSE], c, TimeoutMsg)
    /\ UNCHANGED <<isExecutingCommandsMap, cleanUpSSHMap, deployVars, pollVars>>

\* After the settle promise (or the catch block): the lock is released, the
\* cleanUpSSHMap entry deleted and {stdouts, stderrs, isSuccess, duration} returned.
Finish(c) ==
    /\ calls[c].pc = "settled"
    /\ isExecutingCommandsMap' = releaseExecutionLock(isExecutingCommandsMap, calls[c].host)
    /\ cleanUpSSHMap' = [cleanUpSSHMap EXCEPT ![calls[c].host] = NoCall]
    /\ calls' = [calls EXCEPT ![c].pc = "returned"]
    /\ UNCHANGED <<deployVars, pollVars>>

\* Concurrent interactive calls on the hosts (the host lock and every exit path:
\* sentinel seen or not, channel-open error, connection error, timeout, throw).
Next ==
    \/ \E c \in Calls, h \in Hosts, t \in Timeouts :
          ExecuteCommands(c, h, FALSE, t, <<"c1">>)
    \/ \E c \in Calls : PollLock(c)
    \/ \E c \in Calls : Ready(c)
    \/ \E c \in Calls : ShellOpened(c)
    \/ \E c \in Calls : ShellOpenErr(c)
    \/ \E c \in Calls : ShellData(c, expectedDoneSignalStr)
    \/ \E c \in Calls : ShellClose(c)
    \/ \E c \in Calls, msg \in ConnErrors : ConnError(c, msg)
    \/ \E c \in Calls : TimeoutFire(c)
    \/ \E c \in Calls : Finish(c)

Spec == Init /\ [][Next]_vars

\* One call at a time in full detail: both modes, every command array, every chunk.
NextSession ==
    \/ \E h \in Hosts, ni \in BOOLEAN, t \in Timeouts, cmds \in CallerCommands :
          ExecuteCommands(1, h, ni, t, cmds)
    \/ Ready(1)
    \/ ShellOpened(1)
    \/ ShellOpenErr(1)
    \/ \E data \in Chunks : ShellData(1, data)
    \/ ShellClose(1)
    \/ \E i \in 1..(MaxCmds + 1) : ExecOpenErr(1, i)
    \/ \E i \in 1..(MaxCmds + 1), e \in BOOLEAN : ExecData(1, i, e)
    \/ \E i \in 1..(MaxCmds + 1), code \in ExitCodes : ExecClose(1, i, code)
    \/ \E msg \in ConnErrors : ConnError(1, msg)
    \/ TimeoutFire(1)
    \/ Finish(1)

SpecSession == Init /\ [][NextSession]_vars

\* POST /execute-command for the servers h1 and h2: the loop over serverDocs
\* calls executeCommands for each server with the one array
\* commandsToBeExecuted and a timeout of 30 s. The loop does not await, so
\* both calls are made, and both have passed their lock, before any event of
\* a connection is handled.
startCall(cs, c, rec, connectThrows) ==
    IF lockBusy(rec.host)
    THEN [cs EXCEPT ![c] = [rec EXCEPT !.pc = "waiting"]]
    ELSE beginSession(cs, c, rec, connectThrows)

ExecuteCommandRoute(cmds) ==
    /\ calls[1].pc \in {"idle", "returned"}
    /\ calls[2].pc \in {"idle", "returned"}
    /\ \E th1 \in BOOLEAN, th2 \in BOOLEAN :
          LET rec1 == [IdleCall EXCEPT !.host = "h1", !.timeout = 1, !.array = 1,
                                       !.callerCommands = cmds, !.commands = cmds]
              cs1 == startCall(calls, 1, rec1, th1)
              rec2 == [rec1 EXCEPT !.host = "h2", !.commands = cs1[1].commands]
          IN  calls' = startCall(cs1, 2, rec2, th2)
    /\ isExecutingCommandsMap' =
          [h \in Hosts |-> h \in {"h1", "h2"} \/ isExecutingCommandsMap[h]]
    /\ cleanUpSSHMap' =
          [h \in Hosts |->
              IF lockBusy(h) \/ h \notin {"h1", "h2"} THEN cleanUpSSHMap[h]
              ELSE IF h = "h1" THEN 1 ELSE 2]
    /\ UNCHANGED <<deployVars, pollVars>>

\* The remote shell reads the next line written to it. A caller's command may
\* fail (ok is false); after set -e a failing command makes the shell exit,
\* which closes the channel, as does the line exit; the sentinel echo prints
\* the sentinel.
RemoteRun(c, ok) ==
    /\ calls[c].pc = "shell"
    /\ calls[c].streamOpen
    /\ calls[c].ran < Len(calls[c].written)
    /\ LET line == calls[c].written[calls[c].ran + 1]
           errexit == \E i \in 1..calls[c].ran : calls[c].written[i] = "set -e"
           isCallers == \E i \in 1..Len(calls[c].callerCommands) :
                            calls[c].callerCommands[i] = line
           r == [calls[c] EXCEPT !.ran = @ + 1, !.remoteFailed = @ \/ ~ok]
       IN  /\ ~isCallers => ok
           /\ calls' =
                 IF line = "exit" \/ (~ok /\ errexit)
                 THEN onDone([calls EXCEPT ![c] = [r EXCEPT !.streamOpen = FALSE]], c,
                             r.isDoneSignalReceived)
                 ELSE IF line = "echo GETHERE@$QDONE"
                 THEN [calls EXCEPT ![c] = onShellData(r, expectedDoneSignalStr)]
                 ELSE [calls EXCEPT ![c] = r]
    /\ UNCHANGED <<isExecutingCommandsMap, cleanUpSSHMap, deployVars, pollVars>>

\* An interactive call for h1 alone, or one request for h1 and h2 at once; the
\* shells run the lines written to them.
NextShell ==
    \/ \E cmds \in CallerCommands : ExecuteCommands(1, "h1", FALSE, 0, cmds)
    \/ \E cmds \in CallerCommands : ExecuteCommandRoute(cmds)
    \/ \E c \in Calls : Ready(c)
    \/ \E c \in Calls : ShellOpened(c)
    \/ \E c \in Calls : ShellOpenErr(c)
    \/ \E c \in Calls, ok \in BOOLEAN : RemoteRun(c, ok)
    \/ \E c \in Calls : TimeoutFire(c)
    \/ \E c \in Calls : Finish(c)

SpecShell == Init /\ [][NextShell]_vars

\* Calls that keep arriving for one host, h1, and run their sessions to the end.
NextLock ==
    \/ \E c \in Calls, t \in Timeouts : ExecuteCommands(c, "h1", FALSE, t, <<"c1">>)
    \/ \E c \in Calls : PollLock(c)
    \/ \E c \in Calls : Ready(c)
    \/ \E c \in Calls : ShellOpened(c)
    \/ \E c \in Calls : ShellData(c, expectedDoneSignalStr)
    \/ \E c \in Calls : ShellClose(c)
    \/ \E c \in Calls : TimeoutFire(c)
    \/ \E c \in Calls : Finish(c)

\* Every holder goes on to its release, and the timer of a wait loop fires
\* again and again: a waiting call takes a lock that stays free.
SpecLock ==
    /\ Init
    /\ [][NextLock]_vars
    /\ \A c \in Calls :
          /\ WF_vars(PollLock(c))
          /\ WF_vars(Ready(c))
          /\ WF_vars(ShellOpened(c))
          /\ WF_vars(ShellClose(c))
          /\ WF_vars(Finish(c))

\* --------------------------------------------------------------- properties
\* Call c is between acquiring the lock of host h and releasing it.
Holding(c, h) ==
    /\ calls[c].host = h
    /\ calls[c].pc \in {"connecting", "opening", "shell", "exec", "settled"}

\* msg is one of the messages appended to r.stderrs["shell"].
InShell(r, msg) ==
    /\ "shell" \in DOMAIN r.stderrs
    /\ \E i \in 1..Len(r.stderrs["shell"]) : r.stderrs["shell"][i] = msg

C2_ReleasedAtReturn ==
    \A h \in Hosts :
        (\A c \in Calls : ~Holding(c, h)) =>
            /\ ~isExecutingCommandsMap[h]
            /\ cleanUpSSHMap[h] = NoCall

\* Two calls on h1 have both returned, one successful and one that failed on
\* an error path, and the lock of h1 is free.
C2_BothReturned ==
    \E c1, c2 \in Calls :
        /\ calls[c1].pc = "returned" /\ calls[c1].host = "h1" /\ calls[c1].isSuccess
        /\ calls[c2].pc = "returned" /\ calls[c2].host = "h1" /\ ~calls[c2].isSuccess
        /\ InShell(calls[c2], "connect ECONNREFUSED")
        /\ ~isExecutingCommandsMap["h1"]

\* C3 (as the code has it): in interactive mode isSuccess is true only if the
\* sentinel is part of the shell output received before the channel closed; a
\* channel that closes without the sentinel having been received gives
\* isSuccess = false.
C3_SuccessNeedsSentinel ==
    \A c \in Calls :
        (~calls[c].isNonInteractive /\ calls[c].isSuccess) =>
            Includes(Bucket(calls[c].stdouts, "shell"), expectedDoneSignalStr)

\* An interactive call has returned successful.
C3_InteractiveSuccess ==
    \E c \in Calls :
        /\ calls[c].pc = "returned"
        /\ ~calls[c].isNonInteractive
        /\ calls[c].isSuccess
        /\ ~calls[c].streamOpen

\* C3 as stated: an interactive call's isSuccess is true if and only if the
\* sentinel was part of the shell output received before the channel closed.
C3_SuccessIffSentinel ==
    \A c \in Calls :
        (~calls[c].isNonInteractive /\ calls[c].pc = "returned") =>
            (calls[c].isSuccess <=>
                Includes(Bucket(calls[c].stdouts, "shell"), expectedDoneSignalStr))

\* C4 as stated: a non-interactive call's isSuccess is true if and only if the
\* exec channel of every one of the caller's commands closed with code zero,
\* and the keys of the output maps of a successful call are the caller's
\* command strings.
C4_SuccessIffAllZero ==
    \A c \in Calls :
        (calls[c].isNonInteractive /\ calls[c].pc = "returned") =>
            LET r == calls[c]
                callerClosedZero ==
                    /\ Len(r.chan) = Len(r.callerCommands) + 1
                    /\ \A i \in 2..Len(r.chan) : r.chan[i] = "closed0"
                callerKeys == {r.callerCommands[i] : i \in 1..Len(r.callerCommands)}
            IN  /\ r.isSuccess <=> callerClosedZero
                /\ r.isSuccess => (DOMAIN r.stdouts) \cup (DOMAIN r.stderrs) \subseteq callerKeys

\* C5: when the timer of a call with timeout > 0 fires before done or error,
\* the call settles with isSuccess = false and "SSH command timeout" in
\* stderrs["shell"], its connection is ended, and at return the host lock is
\* released.
C5_TimeoutSettles ==
    /\ [][\A c \in Calls :
            (TimeoutFire(c) /\ ~calls[c].isFinallyDone) =>
                /\ calls[c].timeout > 0
                /\ calls'[c].pc = "settled"
                /\ ~calls'[c].isSuccess
                /\ InShell(calls'[c], TimeoutMsg)
                /\ calls'[c].connEnded]_vars
    /\ [](\A c \in Calls :
            InShell(calls[c], TimeoutMsg) =>
                /\ ~calls[c].isSuccess
                /\ calls[c].connEnded
                /\ calls[c].pc \in {"settled", "returned"}
                /\ calls[c].pc = "returned" =>
                      /\ ~isExecutingCommandsMap[calls[c].host]
                      /\ cleanUpSSHMap[calls[c].host] = NoCall)

\* A call has returned after its timer settled it.
C5_TimedOutReturned ==
    \E c \in Calls :
        /\ calls[c].pc = "returned"
        /\ calls[c].timeout > 0
        /\ InShell(calls[c], TimeoutMsg)
        /\ ~isExecutingCommandsMap[calls[c].host]

\* The call is settled as failed with msg in stderrs["shell"].
Reported(r, msg) == r.pc = "settled" /\ ~r.isSuccess /\ InShell(r, msg)

\* C6: no error leaves executeCommands as an exception: a connection error
\* (refusal, authentication failure), a channel-open error, a timeout and a
\* throw of connect each settle the call with isSuccess = false and the
\* error's message appended to stderrs["shell"], and the call goes on to return.
C6_ErrorsBecomeResults ==
    /\ [][\A c \in Calls :
            /\ \A msg \in ConnErrors :
                  (ConnError(c, msg) /\ ~calls[c].isFinallyDone) => Reported(calls'[c], msg)
            /\ (ShellOpenErr(c) /\ ~calls[c].isFinallyDone) =>
                  Reported(calls'[c], ChannelOpenMsg)
            /\ \A i \in 1..(MaxCmds + 1) :
                  (ExecOpenErr(c, i) /\ ~calls[c].isFinallyDone) =>
                      Reported(calls'[c], ChannelOpenMsg)
            /\ (TimeoutFire(c) /\ ~calls[c].isFinallyDone) => Reported(calls'[c], TimeoutMsg)
            /\ (calls[c].pc \in {"idle", "returned", "waiting"} /\ calls'[c].pc = "settled") =>
                  Reported(calls'[c], ConnectThrowMsg)]_vars
    /\ [](\A c \in Calls : calls[c].pc = "settled" => ENABLED Finish(c))

\* A call has returned a failed result carrying an authentication failure.
C6_AuthFailureReturned ==
    \E c \in Calls :
        /\ calls[c].pc = "returned"
        /\ ~calls[c].isSuccess
        /\ InShell(calls[c], "All configured authentication methods failed")

\* C17 as stated: in non-interactive mode the exec channels are opened one
\* after the other: the channel of command i+1 is not opened before the
\* channel of command i has closed.
C17_ExecOneAtATime ==
    \A c \in Calls :
        calls[c].isNonInteractive =>
            \A i, j \in DOMAIN calls[c].chan :
                (i < j /\ calls[c].chan[j] \in {"open", "closed0", "closedN"}) =>
                    calls[c].chan[i] \in {"closed0", "closedN"}

\* C18 as stated: in non-interactive mode "exec 2>&1" is not added: the
\* commands that are executed and counted are exactly the caller's.
C18_NoPrefixWhenNonInteractive ==
    \A c \in Calls :
        (calls[c].isNonInteractive /\ calls[c].pc \notin {"idle", "waiting"}) =>
            /\ calls[c].commands = calls[c].callerCommands
            /\ Len(calls[c].chan) <= Len(calls[c].callerCommands)

\* C27 as stated: the sentinel is looked for in the cumulative output: when
\* the shell closes a call that has not settled yet and the output sent so
\* far holds the sentinel, be it in one chunk or split over two consecutive
\* chunks, the call is successful.
C27_SentinelInCumulativeOutput ==
    [][\A c \in Calls :
          (/\ calls[c].pc = "shell"
           /\ ~calls[c].isFinallyDone
           /\ Includes(calls[c].sent, expectedDoneSignalStr)
           /\ ShellClose(c)) =>
              calls'[c].isSuccess]_vars

\* C28 as stated: a call that waits for the lock of a busy host acquires it
\* at some time, every holder releasing at some time, also when other calls
\* for the same host keep arriving.
C28_WaiterAcquires ==
    \A c \in Calls : (calls[c].pc = "waiting") ~> (calls[c].pc # "waiting")

\* C29 as stated: the lines written to the shell in interactive mode are the
\* sentinel assignment, set -e, exec 2>&1, the caller's commands, the sentinel
\* echo and exit, in this order; and once a caller's command has failed the
\* shell is gone, so that no later line runs, the sentinel is not received
\* and the call is not successful.
C29_WrittenOrderAndAbort ==
    \A c \in Calls :
        /\ calls[c].written # <<>> =>
              calls[c].written =
                  <<"QDONE=qdone_signal", "set -e", "exec 2>&1">> \o calls[c].callerCommands
                      \o <<"echo GETHERE@$QDONE", "exit">>
        /\ calls[c].remoteFailed =>
              /\ calls[c].pc \in {"settled", "returned"}
              /\ ~calls[c].isDoneSignalReceived
              /\ ~calls[c].isSuccess

\* The consequence of a failing caller's command alone.
AbortOnFailure ==
    \A c \in Calls :
        calls[c].remoteFailed =>
            /\ calls[c].pc \in {"settled", "returned"}
            /\ ~calls[c].isDoneSignalReceived
            /\ ~calls[c].isSuccess

\* C36: a call settles once. After the first done, error or timeout has been
\* handled (isFinallyDone), no later event changes isSuccess: a timer that
\* fires after a success leaves it a success, and a channel that closes after
\* a timeout or an error leaves it a failure.
C36_SettlesOnce ==
    [][\A c \in Calls :
          (calls[c].isFinallyDone /\ calls'[c].isFinallyDone) =>
              calls'[c].isSuccess = calls[c].isSuccess]_vars

\* The timer of a call has fired after the call had settled as a success.
C36_TimerFiredAfterSuccess ==
    \E c \in Calls :
        /\ calls[c].isFinallyDone
        /\ calls[c].isSuccess
        /\ calls[c].timeout > 0
        /\ ~calls[c].timerArmed

\* The shell channel of a call has closed, with the sentinel received, after
\* the timer had settled the call as a failure.
C36_ClosedAfterTimeout ==
    \E c \in Calls :
        /\ InShell(calls[c], TimeoutMsg)
        /\ calls[c].isDoneSignalReceived
        /\ ~calls[c].streamOpen
        /\ calls[c].written # <<>>
        /\ ~calls[c].isSuccess

\* The number of times line occurs in lines.
Occurrences(lines, line) == Cardinality({i \in 1..Len(lines) : lines[i] = line})

\* C37 as stated: executeCommands leaves the array it was given as it was,
\* and when one array is given to the calls for several hosts every host's
\* shell is written the caller's commands once, one wrapper prefix (sentinel
\* assignment, set -e, exec 2>&1) and one sentinel echo.
C37_CallersArrayUnchanged ==
    \A c \in Calls :
        /\ calls[c].pc # "idle" => calls[c].commands = calls[c].callerCommands
        /\ calls[c].written # <<>> =>
              /\ \A i \in 1..Len(calls[c].callerCommands) :
                    Occurrences(calls[c].written, calls[c].callerCommands[i]) = 1
              /\ Occurrences(calls[c].written, "QDONE=qdone_signal") = 1
              /\ Occurrences(calls[c].written, "set -e") = 1
              /\ Occurrences(calls[c].written, "exec 2>&1") = 1
              /\ Occurrences(calls[c].written, "echo GETHERE@$QDONE") = 1

\* C22: executions on distinct hosts never block one another: a call whose
\* own host's lock is free takes it and goes on, at its start as well as at a
\* poll of its wait loop, whatever is running or waiting on the other hosts.
C22_DistinctHostsIndependent ==
    [][\A c \in Calls :
          /\ (/\ calls[c].pc \in {"idle", "returned"}
              /\ calls'[c].pc \notin {"idle", "returned"}
              /\ ~isExecutingCommandsMap[calls'[c].host]) =>
                 /\ calls'[c].pc # "waiting"
                 /\ isExecutingCommandsMap'[calls'[c].host]
          /\ (/\ calls[c].pc = "waiting"
              /\ ~isExecutingCommandsMap[calls[c].host]
              /\ PollLock(c)) =>
                 /\ calls'[c].pc # "waiting"
                 /\ isExecutingCommandsMap'[calls[c].host]]_vars

\* Two calls are inside their sessions at the same time, one on h1 and one
\* on h2.
C22_BothHostsInSession ==
    \E c1, c2 \in Calls :
        /\ Holding(c1, "h1") /\ calls[c1].pc = "shell"
        /\ Holding(c2, "h2") /\ calls[c2].pc = "shell"
        /\ isExecutingCommandsMap["h1"] /\ isExecutingCommandsMap["h2"]

\* ------------------------------------------------ node lifecycle requests
\* The status the result handlers of POST /deploy and POST /command record.
resultStatus(kind, isSuccess) ==
    IF ~isSuccess THEN "error"
    ELSE IF kind = "shutdown" THEN "stopped" ELSE "active"

\* {$set: {deployStatus: {$mergeObjects: ["$deployStatus", {[service]: status}]}}}
mergeStatus(ds, h, s, st) == [ds EXCEPT ![h][s] = st]

\* {$set: {deployStatus: {...currentServer.deployStatus, [kind]: "setting_up"}}}
setWholeStatus(ds, h, snapshot, s) == [ds EXCEPT ![h] = [snapshot EXCEPT ![s] = "setting_up"]]

\* The operation's executeCommands call reaches _accquireExecutionLock: a free
\* lock is taken at once, a busy one sends it into the polling wait.
OpAcquire(o, rec) ==
    IF lockBusy(rec.host)
    THEN /\ ops' = [ops EXCEPT ![o] = [rec EXCEPT !.pc = "waiting"]]
         /\ UNCHANGED isExecutingCommandsMap
    ELSE /\ ops' = [ops EXCEPT ![o] = [rec EXCEPT !.pc = "running"]]
         /\ isExecutingCommandsMap' = [isExecutingCommandsMap EXCEPT ![rec.host] = TRUE]

\* POST /deploy calls SSHService.deployNode(host, ..., service, ...): the command
\* list is built and the server document requested.
DeployRequest(o, h, s) ==
    /\ ops[o].pc \in {"idle", "done"}
    /\ ops' = [ops EXCEPT ![o] = [IdleOp EXCEPT !.pc = "findOne", !.kind = "deploy",
                                              !.host = h, !.service = s]]
    /\ UNCHANGED <<execVars, deployStatus, pollVars>>

\* What the store may do with a request: answer, or fail (the driver throws).
FindAnswers == {"document", "null", "throws"}
UpdateAnswers == {"ok", "throws"}

\* A deployNode without its try/catch: the error leaves deployNode as a
\* rejected promise.
rethrow(rec, error) == [rec EXCEPT !.pc = "rejected", !.error = error]

\* return returnFailedObject: the route's then-handler gets a result with
\* isSuccess false.
returnFailedObject(rec) == [rec EXCEPT !.pc = "handler", !.isSuccess = FALSE]

\* catch (error) { return returnFailedObject; }
catchError(rec, error) == [returnFailedObject(rec) EXCEPT !.error = error]

\* findOne({server: host}) answers. No document, or a throw, ends deployNode with
\* the failed result; otherwise the document read is what the update will spread.
DeployFindOne(o, answer) ==
    /\ ops[o].pc = "findOne"
    /\ ops' = [ops EXCEPT ![o] =
          IF answer = "document"
          THEN [@ EXCEPT !.pc = "updateOne", !.currentServer = deployStatus[ops[o].host]]
          ELSE IF answer = "null" THEN returnFailedObject(@)
          ELSE catchError(@, "findOne")]
    /\ UNCHANGED <<execVars, deployStatus, pollVars>>

\* updateOne({$set: {deployStatus: {...}}}) is applied and executeCommands
\* called, or the update fails and deployNode returns the failed result.
DeployUpdateOne(o, answer) ==
    /\ ops[o].pc = "updateOne"
    /\ IF answer = "ok"
       THEN /\ deployStatus' = setWholeStatus(deployStatus, ops[o].host,
                                              ops[o].currentServer, ops[o].service)
            /\ OpAcquire(o, ops[o])
       ELSE /\ ops' = [ops EXCEPT ![o] = catchError(@, "updateOne")]
            /\ UNCHANGED <<deployStatus, isExecutingCommandsMap>>
    /\ UNCHANGED <<cleanUpSSHMap, calls, pollVars>>

\* POST /command restart: "restarting" is recorded, then restartNode called.
RestartRequest(o, h, s) ==
    /\ ops[o].pc \in {"idle", "done"}
    /\ deployStatus' = mergeStatus(deployStatus, h, s, "restarting")
    /\ OpAcquire(o, [IdleOp EXCEPT !.kind = "restart", !.host = h, !.service = s])
    /\ UNCHANGED <<cleanUpSSHMap, calls, pollVars>>

\* POST /command shutdown: shutdownNode called.
ShutdownRequest(o, h, s) ==
    /\ ops[o].pc \in {"idle", "done"}
    /\ OpAcquire(o, [IdleOp EXCEPT !.kind = "shutdown", !.host = h, !.service = s])
    /\ UNCHANGED <<cleanUpSSHMap, calls, deployStatus, pollVars>>

\* The 100 ms timer of the operation's wait loop fires.
OpPollLock(o) ==
    /\ ops[o].pc = "waiting"
    /\ OpAcquire(o, ops[o])
    /\ UNCHANGED <<cleanUpSSHMap, calls, deployStatus, pollVars>>

\* The operation's executeCommands call settles and returns: the lock is released
\* and the result (isSuccess) handed up to the route's then-handler.
OpExecuted(o, ok) ==
    /\ ops[o].pc = "running"
    /\ isExecutingCommandsMap' = releaseExecutionLock(isExecutingCommandsMap, ops[o].host)
    /\ ops' = [ops EXCEPT ![o].pc = "handler", ![o].isSuccess = ok]
    /\ UNCHANGED <<cleanUpSSHMap, calls, deployStatus, pollVars>>

\* The then-handler's status update (databaseUpdater / updateNodeDeployStatusToDb).
OpHandler(o) ==
    /\ ops[o].pc = "handler"
    /\ deployStatus' = mergeStatus(deployStatus, ops[o].host, ops[o].service,
                                   resultStatus(ops[o].kind, ops[o].isSuccess))
    /\ ops' = [ops EXCEPT ![o].pc = "done"]
    /\ UNCHANGED <<execVars, pollVars>>

\* Requests for the two services of one server.
NextDeploy ==
    \/ \E o \in Ops, s \in Services : DeployRequest(o, "h1", s)
    \/ \E o \in Ops, answer \in FindAnswers : DeployFindOne(o, answer)
    \/ \E o \in Ops, answer \in UpdateAnswers : DeployUpdateOne(o, answer)
    \/ \E o \in Ops, s \in Services : RestartRequest(o, "h1", s)
    \/ \E o \in Ops, s \in Services : ShutdownRequest(o, "h1", s)
    \/ \E o \in Ops : OpPollLock(o)
    \/ \E o \in Ops, ok \in BOOLEAN : OpExecuted(o, ok)
    \/ \E o \in Ops : OpHandler(o)

SpecDeploy == Init /\ [][NextDeploy]_vars

\* C21: when the store lookup or the store update of deployNode fails,
\* deployNode returns a result with isSuccess false instead of throwing, and
\* no SSH command is issued: the host's lock is not asked for and no session
\* is opened.
C21_StoreFailureIsFailedResult ==
    /\ [][\A o \in Ops :
            (ops[o].pc \in {"findOne", "updateOne"} /\ ops'[o].error # "none") =>
                /\ ops'[o].pc = "handler"
                /\ ~ops'[o].isSuccess
                /\ UNCHANGED <<isExecutingCommandsMap, cleanUpSSHMap, calls>>]_vars
    /\ [](\A o \in Ops : ops[o].pc \notin {"rejected", "running", "waiting"} \/ ops[o].error = "none")

\* A deployNode whose store update failed has handed the failed result to the
\* route's handler; the document it had read is still as it was.
C21_UpdateFailedReturned ==
    \E o \in Ops :
        /\ ops[o].kind = "deploy"
        /\ ops[o].pc = "handler"
        /\ ops[o].error = "updateOne"
        /\ ~ops[o].isSuccess
        /\ ~isExecutingCommandsMap[ops[o].host]

\* C7 as stated: a deployNode call that finds the stored status of its own
\* (host, service) to be setting_up is rejected: it neither writes the status
\* nor reaches the host lock nor runs commands.
C7_NoDeployOverSettingUp ==
    \A o \in Ops :
        (ops[o].kind = "deploy" /\ ops[o].currentServer[ops[o].service] = "setting_up") =>
            ops[o].pc \notin {"updateOne", "waiting", "running"}

\* C8 as stated: a (host, service) status is setting_up only while a deploy of
\* that (host, service) is between its setting_up write and its handler's
\* active / error write.
C8_SettingUpOnlyDuringDeploy ==
    \A h \in Hosts, s \in Services :
        deployStatus[h][s] = "setting_up" =>
            \E o \in Ops :
                /\ ops[o].kind = "deploy"
                /\ ops[o].host = h
                /\ ops[o].service = s
                /\ ops[o].pc \in {"waiting", "running", "handler"}

\* The transition table: an unset status may become anything; any state may go to error; setting_up goes only to
\* active; restarting is entered only from active and goes only to active;
\* stopped is entered only from active or error.
Allowed(a, b) ==
    \/ a = "none"
    \/ b = "error"
    \/ /\ a = "setting_up" => b = "active"
       /\ b = "restarting" => a = "active"
       /\ a = "restarting" => b = "active"
       /\ b = "stopped" => a \in {"active", "error"}

\* C9 as stated: every change of a (server, service) deploy status follows
\* the transition table.
C9_TransitionTable ==
    [][\A h \in Hosts, s \in Services :
          deployStatus'[h][s] # deployStatus[h][s] =>
              Allowed(deployStatus[h][s], deployStatus'[h][s])]_vars

\* ------------------------------------------------------------- setupNode
\* The lines of general-setup.sh: a command, a blank line, a comment.
ScriptLines == {"apt", " ", "#c"}
isBlank(line) == line = " "
isComment(line) == line = "#c"

\* The script file: unreadable, or its lines.
SetupFiles ==
    {[readable |-> FALSE, lines |-> <<>>]} \cup
    {[readable |-> TRUE, lines |-> l] :
        l \in UNION {[1..n -> ScriptLines] : n \in 0..MaxLines}}

\* A reader that hands on every line of the file.
rawLines(file) == file.lines

\* getSetupCommands: readFileSync, split("\n"), blank lines dropped; [] on a throw.
getSetupCommands(file) ==
    IF ~file.readable THEN <<>>
    ELSE SelectSeq(file.lines, LAMBDA l : ~isBlank(l))

\* commands.join(" && ")
RECURSIVE joinAnd(_)
joinAnd(cmds) ==
    IF Len(cmds) = 0 THEN ""
    ELSE IF Len(cmds) = 1 THEN cmds[1]
    ELSE cmds[1] \o " && " \o joinAnd(Tail(cmds))

\* inlineBashCommands: comment lines dropped, the rest joined with " && ".
inlineBashCommands(cmds) ==
    joinAnd(SelectSeq(cmds, LAMBDA l : l # "" /\ ~isComment(l)))

\* Object.values(systemInfoCommands)
systemInfoCommands == <<"cpu", "os", "ram">>

\* setupNode(host, ...): an empty command list is answered at once with the
\* failed result; otherwise the provisioning commands are run as one
\* non-interactive command.
SetupNode(c, h, file) ==
    /\ calls[c].pc \in {"idle", "returned"}
    /\ calls[c].setup \in {"none", "failed", "done"}
    /\ LET commands == getSetupCommands(file)
       IN  IF Len(commands) = 0
           THEN /\ calls' = [calls EXCEPT ![c] =
                      [IdleCall EXCEPT !.pc = "returned", !.host = h, !.setup = "failed"]]
                /\ UNCHANGED <<isExecutingCommandsMap, cleanUpSSHMap, deployVars, pollVars>>
           ELSE StartCall(c, [IdleCall EXCEPT
                    !.host = h, !.isNonInteractive = TRUE, !.setup = "main",
                    !.callerCommands = <<inlineBashCommands(commands)>>,
                    !.commands = <<inlineBashCommands(commands)>>])

\* setupNode after its first executeCommands returned: the system info commands.
SetupSysInfo(c) ==
    /\ calls[c].pc = "returned"
    /\ calls[c].setup = "main"
    /\ StartCall(c, [IdleCall EXCEPT
           !.host = calls[c].host, !.isNonInteractive = TRUE, !.setup = "sysinfo",
           !.setupSuccess = calls[c].isSuccess,
           !.callerCommands = systemInfoCommands, !.commands = systemInfoCommands])

\* setupNode returns {isSuccess: result.isSuccess, cpu, os, ram, ...}.
SetupReturn(c) ==
    /\ calls[c].pc = "returned"
    /\ calls[c].setup = "sysinfo"
    /\ calls' = [calls EXCEPT ![c].setup = "done", ![c].isSuccess = calls[c].setupSuccess]
    /\ UNCHANGED <<isExecutingCommandsMap, cleanUpSSHMap, deployVars, pollVars>>

\* POST /execute-command with a command that is no quick command: the
\* operator's text is the one element of the command list.
OperatorCommand(c, h, command) ==
    /\ calls[c].setup \in {"none", "failed", "done"}
    /\ ExecuteCommands(c, h, FALSE, 0, <<command>>)

\* One setupNode or operator command at a time, beside a shutdown request that
\* takes the host lock.
NextSetup ==
    \/ \E h \in Hosts, file \in SetupFiles : SetupNode(1, h, file)
    \/ \E command \in ScriptLines : OperatorCommand(1, "h1", command)
    \/ ShellOpened(1)
    \/ ShellClose(1)
    \/ SetupSysInfo(1)
    \/ SetupReturn(1)
    \/ PollLock(1)
    \/ Ready(1)
    \/ \E i \in 1..(Len(systemInfoCommands) + 1) : ExecOpenErr(1, i)
    \/ \E i \in 1..(Len(systemInfoCommands) + 1) : ExecClose(1, i, 0)
    \/ \E msg \in ConnErrors : ConnError(1, msg)
    \/ Finish(1)
    \/ \E s \in Services : ShutdownRequest(1, "h1", s)
    \/ \E ok \in BOOLEAN : OpExecuted(1, ok)
    \/ OpHandler(1)

SpecSetup == Init /\ [][NextSetup]_vars

\* C23 as stated: no blank line and no comment line of an externally
\* supplied command list reaches the remote host, neither as a line written
\* to the shell nor as a command of an exec channel.
C23_NoBlankOrCommentReachesHost ==
    \A c \in Calls :
        /\ \A i \in DOMAIN calls[c].written :
              ~isBlank(calls[c].written[i]) /\ ~isComment(calls[c].written[i])
        /\ \A i \in DOMAIN calls[c].chan :
              ~isBlank(calls[c].commands[i]) /\ ~isComment(calls[c].commands[i])

\* C20: setupNode with an unreadable script, or one that holds no command
\* line at all, returns the failed result in the same step: the host lock and
\* the cleanUpSSHMap are not touched and no connection is opened.
C20_EmptySetupFailsAtOnce ==
    [][\A c \in Calls, h \in Hosts, file \in SetupFiles :
          (/\ calls'[c] # calls[c]
           /\ calls'[c].host = h
           /\ ~file.readable \/ \A i \in 1..Len(file.lines) : isBlank(file.lines[i])
           /\ SetupNode(c, h, file)) =>
              /\ UNCHANGED <<isExecutingCommandsMap, cleanUpSSHMap>>
              /\ calls'[c].pc = "returned"
              /\ calls'[c].setup = "failed"
              /\ ~calls'[c].isSuccess
              /\ calls'[c].commands = <<>>
              /\ calls'[c].chan = <<>>]_vars

\* A setupNode on h1 has failed at once while a shutdown holds the lock of h1.
C20_FailedWhileLockHeld ==
    /\ calls[1].setup = "failed"
    /\ calls[1].pc = "returned"
    /\ calls[1].host = "h1"
    /\ ops[1].pc = "running"
    /\ isExecutingCommandsMap["h1"]

\* ------------------------------------------------------------ status poller
\* x || d on numbers
JsOr(x, d) == IF x = 0 THEN d ELSE x

\* A 200 answer whose JSON body is null: response.json() hands it on as it is.
NullBody == [isNull |-> TRUE]

LiteInfos == {NoLiteInfo} \cup {[tick |-> t, epoch |-> e] : t \in Ticks, e \in Epochs}
BobInfos == {NoBobInfo} \cup
    {[currentFetchingTick |-> t, currentProcessingEpoch |-> e] : t \in Ticks, e \in Epochs}

\* A forEach body that writes the entry whatever the probe answered.
overwriteLite(serverObject, tickInfo, t) ==
    [present |-> TRUE, tick |-> tickInfo.tick, epoch |-> tickInfo.epoch,
     lastUpdated |-> t, lastTickChanged |-> t]

\* The body of results.forEach in watchLiteNodes for one server.
updateLite(serverObject, tickInfo, t) ==
    IF tickInfo.tick # Unreachable \/ ~serverObject.present
    THEN LET oldTick == IF serverObject.present THEN JsOr(serverObject.tick, -1) ELSE -1
         IN  [present |-> TRUE,
              tick |-> tickInfo.tick,
              epoch |-> tickInfo.epoch,
              lastUpdated |->
                  IF tickInfo.tick # Unreachable THEN t
                  ELSE IF serverObject.present THEN JsOr(serverObject.lastUpdated, -1) ELSE -1,
              lastTickChanged |->
                  IF oldTick # tickInfo.tick THEN t
                  ELSE IF serverObject.present THEN JsOr(serverObject.lastTickChanged, -1) ELSE -1]
    ELSE serverObject

\* The body of results.forEach in watchBobNodes for one server.
updateBob(serverObject, tickInfo, t) ==
    IF tickInfo.currentFetchingTick # Unreachable \/ ~serverObject.present
    THEN LET oldTick == IF serverObject.present
                        THEN JsOr(serverObject.currentFetchingTick, -1) ELSE -1
         IN  [present |-> TRUE,
              currentFetchingTick |-> tickInfo.currentFetchingTick,
              currentProcessingEpoch |-> tickInfo.currentProcessingEpoch,
              lastUpdated |->
                  IF tickInfo.currentFetchingTick # Unreachable THEN t
                  ELSE IF serverObject.present THEN JsOr(serverObject.lastUpdated, -1) ELSE -1,
              lastTickChanged |->
                  IF oldTick # tickInfo.currentFetchingTick THEN t
                  ELSE IF serverObject.present THEN JsOr(serverObject.lastTickChanged, -1) ELSE -1]
    ELSE serverObject

\* pullServerLists: both registered lists are replaced by what the database holds.
PullServerLists(lite, bob, pass) ==
    /\ currentNodes' = [currentNodes EXCEPT !["liteNode"] = lite, !["bobNode"] = bob]
    /\ passcode' = pass
    /\ UNCHANGED <<execVars, deployVars, queryVars, status, watch, now>>

\* A prune that deletes nothing.
keepStatus(st, servers) == st

\* Object.keys(_status.xServers).forEach: delete the entries of servers that are
\* not in the copied list.
pruneStatus(st, servers) == [s \in Servers |-> IF s \in servers THEN st[s] ELSE NoEntry]

\* Top of a watch cycle: the list is copied, entries of servers no longer listed
\* are deleted and one probe per listed server is started.
WatchStart(k) ==
    /\ watch[k].pc = "idle"
    /\ LET servers == currentNodes[k]
       IN  /\ status' = [status EXCEPT ![k] = pruneStatus(status[k], servers)]
           /\ watch' = [watch EXCEPT ![k] =
                  [pc |-> "probing", servers |-> servers,
                   deleted |-> {s \in Servers : status[k][s].present /\ s \notin servers},
                   results |-> <<>>]]
    /\ UNCHANGED <<execVars, deployVars, queryVars, passcode, currentNodes, now>>

\* The servers results.forEach gets through: all of them, or, when a result is
\* null, those before the first null one (reading .tick of null throws).
forEachReach(servers, results, reached) ==
    IF \E s \in servers : results[s] = NullBody
    THEN reached \subseteq {s \in servers : results[s] # NullBody}
    ELSE reached = servers

\* Promise.all resolved: results.forEach applies every probe's answer, then the
\* loop sleeps IDLE_TIME. A throw inside forEach rejects the loop's promise:
\* the loop is over.
WatchLiteResults(results, reached) ==
    /\ watch["liteNode"].pc = "probing"
    /\ forEachReach(watch["liteNode"].servers, results, reached)
    /\ status' = [status EXCEPT !["liteNode"] =
          [s \in Servers |-> IF s \in reached
                           THEN updateLite(status["liteNode"][s], results[s], now)
                           ELSE status["liteNode"][s]]]
    /\ watch' = [watch EXCEPT !["liteNode"].results = results,
                              !["liteNode"].pc =
                                  IF reached = watch["liteNode"].servers THEN "idle" ELSE "dead"]
    /\ UNCHANGED <<execVars, deployVars, queryVars, passcode, currentNodes, now>>

WatchBobResults(results, reached) ==
    /\ watch["bobNode"].pc = "probing"
    /\ forEachReach(watch["bobNode"].servers, results, reached)
    /\ status' = [status EXCEPT !["bobNode"] =
          [s \in Servers |-> IF s \in reached
                           THEN updateBob(status["bobNode"][s], results[s], now)
                           ELSE status["bobNode"][s]]]
    /\ watch' = [watch EXCEPT !["bobNode"].results = results,
                              !["bobNode"].pc =
                                  IF reached = watch["bobNode"].servers THEN "idle" ELSE "dead"]
    /\ UNCHANGED <<execVars, deployVars, queryVars, passcode, currentNodes, now>>

\* Time passes.
ClockTick ==
    /\ now < MaxTime
    /\ now' = now + 1
    /\ UNCHANGED <<execVars, deployVars, queryVars, passcode, currentNodes, status, watch>>

\* The servers the registered lists are drawn from.
LiteLists == SUBSET Servers
BobLists == SUBSET {"h1"}
SmallLists == SUBSET {"h1"}

\* The answers of nodes that all are in epoch 1.
OneEpochLite == {r \in LiteInfos : r.epoch \in {Unreachable, 1}}
OneEpochBob == {r \in BobInfos : r.currentProcessingEpoch \in {Unreachable, 1}}

NextPoll ==
    \/ \E lite \in SmallLists, bob \in BobLists :
          PullServerLists(lite, bob, [s \in Servers |-> ""])
    \/ \E k \in Services : WatchStart(k)
    \/ \E results \in [watch["liteNode"].servers -> OneEpochLite \cup {NullBody}],
          reached \in SUBSET watch["liteNode"].servers : WatchLiteResults(results, reached)
    \/ \E results \in [watch["bobNode"].servers -> OneEpochBob \cup {NullBody}],
          reached \in SUBSET watch["bobNode"].servers : WatchBobResults(results, reached)
    \/ ClockTick

SpecPoll == Init /\ [][NextPoll]_vars

\* C11: at the start of each poll cycle, every status entry whose server is
\* not in the cycle's copy of the registered list is removed, and the entries
\* of the listed servers are kept as they are.
C11_PruneAtCycleStart ==
    [][\A k \in Services :
          (watch[k].pc = "idle" /\ watch'[k].pc = "probing") =>
              /\ watch'[k].servers = currentNodes[k]
              /\ \A s \in Servers :
                    IF s \in watch'[k].servers
                    THEN status'[k][s] = status[k][s]
                    ELSE ~status'[k][s].present]_vars

\* A Lite cycle has just started and has deleted the entry of h1, which is no
\* longer registered.
C11_EntryPruned ==
    /\ watch["liteNode"].pc = "probing"
    /\ watch["liteNode"].deleted = {"h1"}
    /\ ~status["liteNode"]["h1"].present

\* C12: when the probe of a node that has a status entry fails or times out
\* (the probe function's catch value), the cycle leaves the entry as it is:
\* tick, epoch, lastUpdated and lastTickChanged are kept and the entry stays.
C12_FailedProbeKeepsEntry ==
    [][/\ (watch["liteNode"].pc = "probing" /\ watch'["liteNode"].pc # "probing") =>
            \A s \in watch["liteNode"].servers :
                (status["liteNode"][s].present /\ watch'["liteNode"].results[s] = NoLiteInfo) =>
                    status'["liteNode"][s] = status["liteNode"][s]
       /\ (watch["bobNode"].pc = "probing" /\ watch'["bobNode"].pc # "probing") =>
            \A s \in watch["bobNode"].servers :
                (status["bobNode"][s].present /\ watch'["bobNode"].results[s] = NoBobInfo) =>
                    status'["bobNode"][s] = status["bobNode"][s]]_vars

\* The last Lite cycle's probe of h1 failed, and h1's entry still carries the
\* tick and the timestamps of an earlier successful probe.
C12_EntrySurvivedFailure ==
    /\ watch["liteNode"].pc = "idle"
    /\ "h1" \in watch["liteNode"].servers
    /\ watch["liteNode"].results["h1"] = NoLiteInfo
    /\ status["liteNode"]["h1"].present
    /\ status["liteNode"]["h1"].tick # Unreachable
    /\ status["liteNode"]["h1"].lastUpdated < now

\* C19 as stated: whatever the probes of a cycle answer, the watch loops go
\* on: no answer ends the Lite loop or the Bob loop.
C19_LoopNeverEnds ==
    \A k \in Services : watch[k].pc # "dead"

\* C10 as stated: when a successful probe reports the tick (Lite) or fetching
\* tick (Bob) that is already stored for the node, lastTickChanged keeps its
\* value, for every tick value.
C10_SameTickKeepsLastTickChanged ==
    [][\A s \in Servers :
          /\ (/\ status["liteNode"][s].present
              /\ status'["liteNode"][s].present
              /\ status'["liteNode"][s].tick # Unreachable
              /\ status'["liteNode"][s].tick = status["liteNode"][s].tick) =>
                 status'["liteNode"][s].lastTickChanged = status["liteNode"][s].lastTickChanged
          /\ (/\ status["bobNode"][s].present
              /\ status'["bobNode"][s].present
              /\ status'["bobNode"][s].currentFetchingTick # Unreachable
              /\ status'["bobNode"][s].currentFetchingTick =
                    status["bobNode"][s].currentFetchingTick) =>
                 status'["bobNode"][s].lastTickChanged = status["bobNode"][s].lastTickChanged]_vars
\* C26 as stated: a status entry is created only by a successful probe: no
\* entry holds the tick of a failed probe, which would be the entry of a
\* server whose probes have all failed so far.
C26_EntryOnlyAfterSuccess ==
    \A s \in Servers :
        /\ status["liteNode"][s].present => status["liteNode"][s].tick # Unreachable
        /\ status["bobNode"][s].present =>
              status["bobNode"][s].currentFetchingTick # Unreachable

\* ----------------------------------------------------- getNetworkStatus
\* Object.entries(_status.liteServers): the servers that have an entry, in the
\* order the object lists them.
EntryOrders(st) ==
    LET P == {s \in Servers : st[s].present}
    IN  {o \in [1..Cardinality(P) -> P] : \A i, j \in 1..Cardinality(P) : o[i] = o[j] => i = j}

\* A loop that keeps the tick and epoch of the entry it saw last.
networkLast(order, st, acc) ==
    IF order = <<>> THEN acc
    ELSE [tick |-> st[order[Len(order)]].tick, epoch |-> st[order[Len(order)]].epoch]

\* for (let node of statuses.liteNodes) if (node.tick > currentTick) {...}
RECURSIVE networkFold(_, _, _)
networkFold(order, st, acc) ==
    IF order = <<>> THEN acc
    ELSE LET node == st[Head(order)]
         IN  networkFold(Tail(order), st,
                 IF node.tick > acc.tick
                 THEN [tick |-> node.tick, epoch |-> node.epoch]
                 ELSE acc)

\* getNetworkStatus(): {tick: currentTick, epoch}, starting from 0 and 0
getNetworkStatus(order, st) == networkFold(order, st, [tick |-> 0, epoch |-> 0])

\* A caller (a route handler) asks for the network status.
GetNetworkStatus ==
    /\ \E order \in EntryOrders(status["liteNode"]) :
          network' = getNetworkStatus(order, status["liteNode"])
    /\ UNCHANGED <<execVars, deployVars, currentNodes, status, watch, now, passcode, sel, built, adminVars>>

\* Two Lite nodes that may be in different epochs, polled and asked about.
NextNetwork ==
    \/ \E lite \in SUBSET {"h1", "h2"} : PullServerLists(lite, {}, [s \in Servers |-> ""])
    \/ WatchStart("liteNode")
    \/ \E results \in [watch["liteNode"].servers -> LiteInfos] :
          WatchLiteResults(results, watch["liteNode"].servers)
    \/ GetNetworkStatus

SpecNetwork == Init /\ [][NextNetwork]_vars

\* r is the greatest tick of the table st, with the epoch of an entry that
\* holds it; 0 and 0 when no entry has a positive tick.
IsNetworkStatusOf(r, st) ==
    LET P == {s \in Servers : st[s].present /\ st[s].tick > 0}
    IN  IF P = {}
        THEN r = [tick |-> 0, epoch |-> 0]
        ELSE /\ \A s \in P : st[s].tick <= r.tick
             /\ \E s \in P : st[s].tick = r.tick /\ st[s].epoch = r.epoch

\* C13: getNetworkStatus returns the maximum tick over the Lite status entries
\* with the epoch of an entry holding it; entries with tick -1 never determine
\* the result; with no positive tick it returns tick 0 and epoch 0.
C13_NetworkStatusIsMax ==
    \A order \in EntryOrders(status["liteNode"]) :
        IsNetworkStatusOf(getNetworkStatus(order, status["liteNode"]), status["liteNode"])

\* getNetworkStatus has answered tick 2 of epoch 2, held by h1, while h2 has an
\* unreachable entry (tick -1).
C13_MaxBesideUnreachable ==
    /\ network = [tick |-> 2, epoch |-> 2]
    /\ status["liteNode"]["h1"].present /\ status["liteNode"]["h1"].tick = 2
    /\ status["liteNode"]["h1"].epoch = 2
    /\ status["liteNode"]["h2"].present /\ status["liteNode"]["h2"].tick = Unreachable
\* ------------------------------------ getRandomLiteNode / getRandomBobNode
\* 2 * 60 * 1000 milliseconds: the clock of the model counts in this unit.
ActiveWindow == 1

\* isNodeActive(lastTickChanged), with the value Date.now() has when it runs
isNodeActive(lastTickChanged, t) == t - lastTickChanged < ActiveWindow

\* Logging passcodes a registered Lite node may carry ("" is an unset one).
Passcodes == {"", "0-0-0-0", " 0-0-0-0", "1-2-3-4"}

\* String.prototype.trim on these passcodes
trim(p) == IF p = " 0-0-0-0" THEN "0-0-0-0" ELSE p

\* The order in which the database lists the registered servers.
ServerOrder == <<"h1", "h2", "h3">>

\* [..._currentLiteNodes] / [..._currentBobNodes]
registered(k) == SelectSeq(ServerOrder, LAMBDA s : s \in currentNodes[k])

\* A candidate test that lets every server pass.
anyNodeIsCandidate(k, isNeedLoggingPasscode, server, t) == TRUE

\* checkIsCandidateNode(server), evaluated when Date.now() is t
checkIsCandidateNode(k, isNeedLoggingPasscode, server, t) ==
    LET entry == status[k][server]
        lastTickChanged == IF entry.present THEN JsOr(entry.lastTickChanged, 0) ELSE 0
    IN  IF isNeedLoggingPasscode
        THEN /\ isNodeActive(lastTickChanged, t)
             /\ passcode[server] = "" \/ trim(passcode[server]) = "0-0-0-0"
        ELSE isNodeActive(lastTickChanged, t)

\* getRandomLiteNode(n, isNeedLoggingPasscode) / getRandomBobNode(n) up to the
\* while loop: the early return, the count of candidates and the clamp of n.
SelectStart(k, n, isNeedLoggingPasscode) ==
    /\ sel.pc = "idle"
    /\ k = "bobNode" => ~isNeedLoggingPasscode
    /\ LET servers == registered(k)
           numberOfActiveNodes ==
               Cardinality({i \in 1..Len(servers) :
                   checkIsCandidateNode(k, isNeedLoggingPasscode, servers[i], now)})
           clamped == IF numberOfActiveNodes < n THEN numberOfActiveNodes ELSE n
       IN  IF n >= Len(servers)
           THEN sel' = [pc |-> "returned", kind |-> k,
                        isNeedLoggingPasscode |-> isNeedLoggingPasscode,
                        requested |-> n, n |-> n, servers |-> servers,
                        numberOfActiveNodes |-> 0, usedIndices |-> {},
                        selectedServers |-> servers]
           ELSE sel' = [pc |-> IF 0 < clamped THEN "loop" ELSE "returned", kind |-> k,
                        isNeedLoggingPasscode |-> isNeedLoggingPasscode,
                        requested |-> n, n |-> clamped, servers |-> servers,
                        numberOfActiveNodes |-> numberOfActiveNodes, usedIndices |-> {},
                        selectedServers |-> <<>>]
    /\ UNCHANGED <<execVars, deployVars, currentNodes, status, watch, now, passcode, network, built, adminVars>>

\* One iteration of the while loop with the index Math.random() produced, and
\* the test of the loop condition that follows it.
SelectIterate(randomIndex) ==
    /\ sel.pc = "loop"
    /\ randomIndex \in 1..Len(sel.servers)
    /\ IF /\ randomIndex \notin sel.usedIndices
          /\ checkIsCandidateNode(sel.kind, sel.isNeedLoggingPasscode,
                                  sel.servers[randomIndex], now)
       THEN sel' = [sel EXCEPT
                !.usedIndices = @ \cup {randomIndex},
                !.selectedServers = Append(@, sel.servers[randomIndex]),
                !.pc = IF Len(sel.selectedServers) + 1 < sel.n THEN "loop" ELSE "returned"]
       ELSE sel' = sel
    /\ UNCHANGED <<execVars, deployVars, currentNodes, status, watch, now, passcode, network, built, adminVars>>

\* The caller has the returned list; the locals of the call are gone.
SelectReturn ==
    /\ sel.pc = "returned"
    /\ sel' = IdleSel
    /\ UNCHANGED <<execVars, deployVars, currentNodes, status, watch, now, passcode, network, built, adminVars>>

\* The registered lists, passcodes and probe answers the selection is run on:
\* the servers are registered as Lite nodes or as Bob nodes, once and for all.
SelectLists == {{"h1", "h2"}, Servers}
SelectRegistries ==
    {[liteNode |-> l, bobNode |-> {}] : l \in SelectLists} \cup
    {[liteNode |-> {}, bobNode |-> b] : b \in SelectLists}
PasscodeTables ==
    {[s \in Servers |-> ""],
     [s \in Servers |-> IF s = "h1" THEN "1-2-3-4" ELSE IF s = "h2" THEN " 0-0-0-0" ELSE "0-0-0-0"]}
SelectLiteInfos == {NoLiteInfo, [tick |-> 1, epoch |-> 1]}
SelectBobInfos == {NoBobInfo, [currentFetchingTick |-> 1, currentProcessingEpoch |-> 1]}

\* The poller and the selection. The selection is synchronous: while a
\* call is running no other handler runs, only the clock goes on.
NextSelect ==
    \/ /\ sel.pc = "idle"
       /\ \E reg \in SelectRegistries, pass \in PasscodeTables :
             /\ \A k \in Services : reg[k] = {} => currentNodes[k] = {}
             /\ PullServerLists(reg.liteNode, reg.bobNode, pass)
    \/ /\ sel.pc = "idle"
       /\ \E k \in Services : WatchStart(k)
    \/ /\ sel.pc = "idle"
       /\ \E results \in [watch["liteNode"].servers -> SelectLiteInfos] :
             WatchLiteResults(results, watch["liteNode"].servers)
    \/ /\ sel.pc = "idle"
       /\ \E results \in [watch["bobNode"].servers -> SelectBobInfos] :
             WatchBobResults(results, watch["bobNode"].servers)
    \/ \E k \in Services, n \in 0..MaxN, isNeedLoggingPasscode \in BOOLEAN :
          SelectStart(k, n, isNeedLoggingPasscode)
    \/ \E randomIndex \in 1..Len(ServerOrder) : SelectIterate(randomIndex)
    \/ SelectReturn
    \/ ClockTick

SpecSelect == Init /\ [][NextSelect]_vars

\* The same with a fair Math.random(): an index that can be taken again and
\* again is drawn at some time.
SpecSelectLive ==
    SpecSelect /\ \A randomIndex \in 1..Len(ServerOrder) : SF_vars(SelectIterate(randomIndex))

\* Server s of kind k is active at time t: its tick changed less than two
\* minutes before t.
IsActiveAt(k, s, t) ==
    status[k][s].present /\ t - status[k][s].lastTickChanged < ActiveWindow

\* The passcode is unset or the default one.
PasscodeIsDefault(p) == p = "" \/ trim(p) = "0-0-0-0"

\* The eligible servers of a list at time t.
EligibleNodes(k, isNeedLoggingPasscode, servers, t) ==
    {s \in {servers[i] : i \in 1..Len(servers)} :
        /\ IsActiveAt(k, s, t)
        /\ isNeedLoggingPasscode => PasscodeIsDefault(passcode[s])}

\* C14: when a selection returns and at most n (the requested number) nodes
\* are eligible, the returned nodes are exactly the eligible nodes: every
\* eligible node and no inactive or passcode-configured one.
C14_AtMostNReturnsEligible ==
    [][(sel.pc # "returned" /\ sel'.pc = "returned") =>
          LET eligible == EligibleNodes(sel'.kind, sel'.isNeedLoggingPasscode,
                                        sel'.servers, now)
          IN  Cardinality(eligible) <= sel'.requested =>
                 {sel'.selectedServers[i] : i \in 1..Len(sel'.selectedServers)} = eligible]_vars

\* C15: a selection that has entered its loop returns, whatever n and the
\* status table are.
C15_SelectTerminates == (sel.pc = "loop") ~> (sel.pc = "returned")

\* C16: when more than n nodes are eligible at the call, the selection returns
\* exactly n nodes, pairwise distinct, each of them active when it was taken
\* and, with the passcode filter on, with an unset or default passcode.
C16_ExactlyNDistinctEligible ==
    /\ [][(sel.pc = "idle" /\ sel'.pc # "idle" /\ sel'.requested < Len(sel'.servers)) =>
             sel'.numberOfActiveNodes =
                 Cardinality(EligibleNodes(sel'.kind, sel'.isNeedLoggingPasscode,
                                           sel'.servers, now))]_vars
    /\ [][(sel.pc = "loop" /\ Len(sel'.selectedServers) = Len(sel.selectedServers) + 1) =>
             IsActiveAt(sel.kind, sel'.selectedServers[Len(sel'.selectedServers)], now)]_vars
    /\ []((sel.pc = "returned" /\ sel.numberOfActiveNodes > sel.requested) =>
             /\ Len(sel.selectedServers) = sel.requested
             /\ \A i, j \in 1..Len(sel.selectedServers) :
                   sel.selectedServers[i] = sel.selectedServers[j] => i = j
             /\ \A i \in 1..Len(sel.selectedServers) :
                   sel.isNeedLoggingPasscode =>
                       PasscodeIsDefault(passcode[sel.selectedServers[i]]))

\* One Lite node was asked for with the passcode filter on while h1, h2 and h3
\* were active and h1 had a passcode configured: h2, whose passcode is the
\* default one with a blank before it, was returned.
C16_OneOfTwoOnboarding ==
    /\ sel.pc = "returned"
    /\ sel.kind = "liteNode" /\ sel.isNeedLoggingPasscode
    /\ sel.requested = 1 /\ sel.numberOfActiveNodes = 2
    /\ sel.selectedServers = <<"h2">>
    /\ passcode["h1"] = "1-2-3-4" /\ passcode["h2"] = " 0-0-0-0"
    /\ \A s \in Servers : IsActiveAt("liteNode", s, now)

\* Two of three active Bob nodes were asked for and two were returned.
C16_TwoOfThreeBob ==
    /\ sel.pc = "returned"
    /\ sel.kind = "bobNode"
    /\ sel.requested = 2 /\ sel.numberOfActiveNodes = 3
    /\ Len(sel.selectedServers) = 2

\* -------------------------------------------------------- script builders
\* A URL is the sequence of its parts between "/"; a part (the file name is
\* the last one) is the sequence of its pieces between ".".
NameTokens == {"epoch", "zip", "tar", "gz", "tgz", "bz2", "tbz2", "xz", "txz"}
FileNames == UNION {[1..n -> NameTokens] : n \in 1..MaxParts}
UrlPrefixes == {<<>>, <<<<"host">>>>, <<<<"host">>, <<"old", "zip">>>>}
Urls == {prefix \o <<name>> : prefix \in UrlPrefixes, name \in FileNames}

\* The text of a part: its pieces with "." between them.
RECURSIVE joinDot(_)
joinDot(pieces) ==
    IF Len(pieces) = 0 THEN ""
    ELSE IF Len(pieces) = 1 THEN pieces[1]
    ELSE pieces[1] \o "." \o joinDot(Tail(pieces))

\* A basename that is taken from the front of the URL.
firstPartOfUrl(url) == url[1]

\* url.substring(url.lastIndexOf("/") + 1)
getBasenameFromUrl(url) == url[Len(url)]

\* filename.endsWith("." + suffix), suffix given by its pieces
endsWith(filename, suffix) ==
    /\ Len(filename) > Len(suffix)
    /\ SubSeq(filename, Len(filename) - Len(suffix) + 1, Len(filename)) = suffix

getUnzipCommandFromUrl(url) ==
    LET filename == getBasenameFromUrl(url)
    IN  IF endsWith(filename, <<"zip">>)
        THEN "unzip " \o joinDot(filename)
        ELSE IF endsWith(filename, <<"tar", "gz">>) \/ endsWith(filename, <<"tgz">>)
        THEN "tar -xvzf " \o joinDot(filename)
        ELSE IF endsWith(filename, <<"tar", "bz2">>) \/ endsWith(filename, <<"tbz2">>)
        THEN "tar -xvjf " \o joinDot(filename)
        ELSE IF endsWith(filename, <<"tar", "xz">>) \/ endsWith(filename, <<"txz">>)
        THEN "tar -xvJf " \o joinDot(filename)
        ELSE ""

\* The calls of getUnzipCommandFromUrl that are made.
UnzipCalls == {[fn |-> "getUnzipCommandFromUrl", pc |-> "called", url |-> url] : url \in Urls}

\* getUnzipCommandFromUrl(url) runs and returns.
GetUnzipCommandFromUrl ==
    /\ built.fn = "getUnzipCommandFromUrl"
    /\ built.pc = "called"
    /\ built' = [fn |-> built.fn, pc |-> "returned", url |-> built.url,
                 result |-> getUnzipCommandFromUrl(built.url)]
    /\ UNCHANGED <<execVars, deployVars, currentNodes, status, watch, now, passcode, network, sel, adminVars>>

\* The text of a URL: its parts with "/" between them.
RECURSIVE joinSlash(_)
joinSlash(url) ==
    IF Len(url) = 0 THEN ""
    ELSE IF Len(url) = 1 THEN joinDot(url[1])
    ELSE joinDot(url[1]) \o "/" \o joinSlash(Tail(url))

\* peers.join(",") and the like
RECURSIVE joinComma(_)
joinComma(items) ==
    IF Len(items) = 0 THEN ""
    ELSE IF Len(items) = 1 THEN items[1]
    ELSE items[1] \o "," \o joinComma(Tail(items))

BOB_SCREEN_NAME == "bob"

\* liteNode: 40, bobNode: 6, system: 2
totalRamNeededInSystem == [liteNode |-> 40, bobNode |-> 6, system |-> 2]

\* A size that is not raised to the minimum.
keydbRamUnclamped(systemRamInGB) ==
    systemRamInGB - totalRamNeededInSystem.liteNode - totalRamNeededInSystem.bobNode
        - totalRamNeededInSystem.system

\* totalRamNeededForKeydbInGB: what is left of the system's RAM, 12 at least
totalRamNeededForKeydbInGB(systemRamInGB) ==
    LET left == systemRamInGB - totalRamNeededInSystem.liteNode
                    - totalRamNeededInSystem.bobNode - totalRamNeededInSystem.system
    IN  IF left < 12 THEN 12 ELSE left

\* The three commands at the end of both lists of getBobNodeSetupScripts.
keydbStartCommand(maxmemory) ==
    "screen -dmS keydb bash -lc \"keydb-server --maxmemory " \o ToString(maxmemory)
        \o "G --maxmemory-policy allkeys-lru\""
keydbWaitCommand ==
    "until [[ \"$(keydb-cli ping 2>/dev/null)\" == \"PONG\" ]]; do { echo \"Waiting for keydb...\"; sleep 1; }; done"
bobStartCommand ==
    "screen -dmS " \o BOB_SCREEN_NAME \o " bash -lc \"./$CURRENT_BINARY bob_config.json || exec bash\""

\* A list that launches Bob first and the cache after it, without a wait.
bobBeforeKeydb(maxmemory) == <<bobStartCommand, keydbStartCommand(maxmemory)>>

\* keydb start, wait until it answers a ping, Bob start
startCommands(maxmemory) ==
    <<keydbStartCommand(maxmemory), keydbWaitCommand, bobStartCommand>>

\* The peers a deployment may name, and the two kinds the Bob config keeps.
PeerLists == {<<>>, <<"bob:10.0.0.1:21842", "BM:10.0.0.2:21841:0-0-0-0", "10.0.0.3">>}
isP2pPeer(p) == p = "bob:10.0.0.1:21842"
isTrustedPeer(p) == p = "BM:10.0.0.2:21841:0-0-0-0"

\* JSON.stringify(currentBobConfig), the fields of DEFAULT_BOB_CONFIG left out
stringifyBobConfig(peers) ==
    "{p2p-node:[" \o joinComma(SelectSeq(peers, isP2pPeer)) \o "],trusted-node:["
        \o joinComma(SelectSeq(peers, isTrustedPeer)) \o "]}"

\* Scripts.getBobNodeSetupScripts({binaryUrl, epochFile, peers, isRestart, systemRamInGB})
getBobNodeSetupScripts(args) ==
    LET maxmemory == totalRamNeededForKeydbInGB(args.systemRamInGB)
        binaryName == joinDot(getBasenameFromUrl(args.binaryUrl))
    IN  IF args.isRestart
        THEN <<"cd ~", "cd qbob", "CURRENT_BINARY=$(cat binary_name.txt)">>
                 \o startCommands(maxmemory)
        ELSE <<"date", "cd ~", "rm -rf qbob", "rm -rf /data/flash/db/*",
               "mkdir -p /data/flash/db", "mkdir -p qbob", "cd qbob",
               "wget " \o joinSlash(args.binaryUrl),
               "chmod +x ./" \o binaryName,
               "wget " \o joinSlash(args.epochFile),
               getUnzipCommandFromUrl(args.epochFile),
               "echo '" \o stringifyBobConfig(args.peers) \o "' > bob_config.json",
               "jq . bob_config.json > temp_config.json && mv temp_config.json bob_config.json",
               "echo \"" \o binaryName \o "\" > binary_name.txt",
               "CURRENT_BINARY=$(cat binary_name.txt)">>
                 \o startCommands(maxmemory)

\* The RAM sizes, URLs and calls of getBobNodeSetupScripts that are made.
RamValues == (-1)..MaxRam
BinaryUrls == {<<<<"host">>, <<"bob">>>>}
EpochFiles == {<<<<"host">>, <<"epoch", "zip">>>>, <<<<"host">>, <<"epoch", "tar">>>>}
BobSetupCalls ==
    {[fn |-> "getBobNodeSetupScripts", pc |-> "called",
      args |-> [binaryUrl |-> b, epochFile |-> e, peers |-> p, isRestart |-> r,
                systemRamInGB |-> m]] :
        b \in BinaryUrls, e \in EpochFiles, p \in PeerLists, r \in BOOLEAN, m \in RamValues}

\* getBobNodeSetupScripts(args) runs and returns.
GetBobNodeSetupScripts ==
    /\ built.fn = "getBobNodeSetupScripts"
    /\ built.pc = "called"
    /\ built' = [fn |-> built.fn, pc |-> "returned", args |-> built.args,
                 result |-> getBobNodeSetupScripts(built.args)]
    /\ UNCHANGED <<execVars, deployVars, currentNodes, status, watch, now, passcode, network, sel, adminVars>>

BuildCalls == UnzipCalls \cup BobSetupCalls

InitBuild ==
    /\ ExecInit
    /\ DeployInit
    /\ PollInit
    /\ AdminInit
    /\ built \in BuildCalls

NextBuild ==
    \/ GetUnzipCommandFromUrl
    \/ GetBobNodeSetupScripts

SpecBuild == InitBuild /\ [][NextBuild]_vars

\* C24: getUnzipCommandFromUrl chooses the command by the end of the file
\* name of the URL: .zip gives unzip, .tar.gz and .tgz give tar -xvzf,
\* .tar.bz2 and .tbz2 give tar -xvjf, .tar.xz and .txz give tar -xvJf, each
\* followed by the file name, and every other name gives the empty string.
C24_UnzipCommandBySuffix ==
    (built.fn = "getUnzipCommandFromUrl" /\ built.pc = "returned") =>
        LET file == built.url[Len(built.url)]
            n == Len(file)
            last == file[n]
            tarred(z) == n >= 3 /\ file[n - 1] = "tar" /\ last = z
            name == joinDot(file)
        IN  IF n >= 2 /\ last = "zip" THEN built.result = "unzip " \o name
            ELSE IF tarred("gz") \/ (n >= 2 /\ last = "tgz")
            THEN built.result = "tar -xvzf " \o name
            ELSE IF tarred("bz2") \/ (n >= 2 /\ last = "tbz2")
            THEN built.result = "tar -xvjf " \o name
            ELSE IF tarred("xz") \/ (n >= 2 /\ last = "txz")
            THEN built.result = "tar -xvJf " \o name
            ELSE built.result = ""

\* The command for an epoch.tar.xz that lies below a directory named old.zip
\* has been built.
C24_TarXzBelowZipDirectory ==
    /\ built.fn = "getUnzipCommandFromUrl" /\ built.pc = "returned"
    /\ built.url = <<<<"host">>, <<"old", "zip">>, <<"epoch", "tar", "xz">>>>
    /\ built.result = "tar -xvJf epoch.tar.xz"

\* The start commands of the cache server, for every size.
KeydbStartCommands == {keydbStartCommand(m) : m \in (-50)..(MaxRam + 1)}

\* C25: the cache memory size in the keydb start command is the greater of 12
\* and systemRamInGB - 48, in the list of a fresh install as in that of a
\* restart: the list holds the start command with this size and with no other.
C25_KeydbMemoryIsClampedRest ==
    (built.fn = "getBobNodeSetupScripts" /\ built.pc = "returned") =>
        LET rest == built.args.systemRamInGB - 48
            expected == IF rest >= 12 THEN rest ELSE 12
        IN  {built.result[i] : i \in DOMAIN built.result} \cap KeydbStartCommands
                = {keydbStartCommand(expected)}

\* The lists for 64 GB (16G) and for 50 GB (12G), one fresh and one restart.
C25_SixtyFourGivesSixteen ==
    /\ built.fn = "getBobNodeSetupScripts" /\ built.pc = "returned"
    /\ built.args.systemRamInGB = 64
    /\ ~built.args.isRestart
    /\ \E i \in DOMAIN built.result : built.result[i] = keydbStartCommand(16)

C25_FiftyGivesTwelve ==
    /\ built.fn = "getBobNodeSetupScripts" /\ built.pc = "returned"
    /\ built.args.systemRamInGB = 50
    /\ built.args.isRestart
    /\ \E i \in DOMAIN built.result : built.result[i] = keydbStartCommand(12)

\* Command cmd is a start of the cache server.
IsKeydbStart(cmd) == cmd \in KeydbStartCommands

\* C30: in every list of getBobNodeSetupScripts, fresh or restart, there is a
\* start of the cache server, a wait-until-ping loop and a launch of Bob, and
\* every start of the cache precedes every wait loop, which precedes every
\* launch of Bob.
C30_KeydbThenWaitThenBob ==
    (built.fn = "getBobNodeSetupScripts" /\ built.pc = "returned") =>
        LET r == built.result
        IN  /\ \E i, j, k \in DOMAIN r :
                  IsKeydbStart(r[i]) /\ r[j] = keydbWaitCommand /\ r[k] = bobStartCommand
            /\ \A i, j \in DOMAIN r :
                  (IsKeydbStart(r[i]) /\ r[j] = keydbWaitCommand) => i < j
            /\ \A j, k \in DOMAIN r :
                  (r[j] = keydbWaitCommand /\ r[k] = bobStartCommand) => j < k

\* A restart list has been built: its last three commands are the cache
\* start, the wait loop and the launch.
C30_RestartListBuilt ==
    /\ built.fn = "getBobNodeSetupScripts" /\ built.pc = "returned"
    /\ built.args.isRestart
    /\ Len(built.result) = 6
    /\ IsKeydbStart(built.result[4])
    /\ built.result[5] = keydbWaitCommand
    /\ built.result[6] = bobStartCommand
\* ------------------------------------------------- server-list requests
\* A list that takes the new servers in beside the old ones.
mergeList(old, new) == old \cup new

\* _currentLiteNodes = liteServers.map(...): the variable is given a new array.
replaceList(old, new) == new

\* The servers the requests are about.
ListedServers == {"h1", "h2"}

\* POST /new-server for a server that runs the services of kinds: the handler
\* is entered.
NewServerRequest(p, server, kinds) ==
    /\ reqs[p].pc = "idle"
    /\ kinds # {}
    /\ reqs' = [reqs EXCEPT ![p] = [IdleReq EXCEPT !.pc = "insertLite", !.server = server,
                                                   !.kinds = kinds]]
    /\ UNCHANGED <<execVars, deployVars, currentNodes, status, watch, now, passcode,
                   network, sel, built, db, socket, fan, snap>>

\* await getLiteNodeCollection().insertOne(...), when the Lite service is asked for
InsertLite(p) ==
    /\ reqs[p].pc = "insertLite"
    /\ db' = IF "liteNode" \in reqs[p].kinds
             THEN [db EXCEPT !["liteNode"] = @ \cup {reqs[p].server}]
             ELSE db
    /\ reqs' = [reqs EXCEPT ![p].pc = "insertBob"]
    /\ UNCHANGED <<execVars, deployVars, currentNodes, status, watch, now, passcode,
                   network, sel, built, socket, fan, snap>>

\* await getBobNodeCollection().insertOne(...), when the Bob service is asked
\* for; pullServerLists is called next.
InsertBob(p) ==
    /\ reqs[p].pc = "insertBob"
    /\ db' = IF "bobNode" \in reqs[p].kinds
             THEN [db EXCEPT !["bobNode"] = @ \cup {reqs[p].server}]
             ELSE db
    /\ reqs' = [reqs EXCEPT ![p].pc = "readLite"]
    /\ UNCHANGED <<execVars, deployVars, currentNodes, status, watch, now, passcode,
                   network, sel, built, socket, fan, snap>>

\* POST /delete-server for one server: the handler is entered.
DeleteServerRequest(p, server) ==
    /\ reqs[p].pc = "idle"
    /\ reqs' = [reqs EXCEPT ![p] = [IdleReq EXCEPT !.pc = "deleteLite", !.server = server]]
    /\ UNCHANGED <<execVars, deployVars, currentNodes, status, watch, now, passcode,
                   network, sel, built, db, socket, fan, snap>>

\* await getLiteNodeCollection().deleteOne({server})
DeleteLite(p) ==
    /\ reqs[p].pc = "deleteLite"
    /\ db' = [db EXCEPT !["liteNode"] = @ \ {reqs[p].server}]
    /\ reqs' = [reqs EXCEPT ![p].pc = "deleteBob"]
    /\ UNCHANGED <<execVars, deployVars, currentNodes, status, watch, now, passcode,
                   network, sel, built, socket, fan, snap>>

\* await getBobNodeCollection().deleteOne({server}); pullServerLists is called next.
DeleteBob(p) ==
    /\ reqs[p].pc = "deleteBob"
    /\ db' = [db EXCEPT !["bobNode"] = @ \ {reqs[p].server}]
    /\ reqs' = [reqs EXCEPT ![p].pc = "readLite"]
    /\ UNCHANGED <<execVars, deployVars, currentNodes, status, watch, now, passcode,
                   network, sel, built, socket, fan, snap>>

\* pullServerLists: let liteServers = await Mongodb.getLiteNodes()
PullReadLite(p) ==
    /\ reqs[p].pc = "readLite"
    /\ reqs' = [reqs EXCEPT ![p].pc = "readBob", ![p].lite = db["liteNode"]]
    /\ UNCHANGED <<execVars, deployVars, currentNodes, status, watch, now, passcode,
                   network, sel, built, db, socket, fan, snap>>

\* pullServerLists: let bobServers = await Mongodb.getBobNodes(); the awaited
\* look-ups of the ipInfo of the listed servers follow.
PullReadBob(p) ==
    /\ reqs[p].pc = "readBob"
    /\ reqs' = [reqs EXCEPT ![p].pc = "swap", ![p].bob = db["bobNode"]]
    /\ UNCHANGED <<execVars, deployVars, currentNodes, status, watch, now, passcode,
                   network, sel, built, db, socket, fan, snap>>

\* pullServerLists: a read of a collection throws; the catch block swallows
\* the error and the lists stay as they are.
PullThrows(p) ==
    /\ reqs[p].pc \in {"readLite", "readBob"}
    /\ reqs' = [reqs EXCEPT ![p] = IdleReq]
    /\ UNCHANGED <<execVars, deployVars, currentNodes, status, watch, now, passcode,
                   network, sel, built, db, socket, fan, snap>>

\* pullServerLists: the two assignments, which no await separates; the
\* request is answered.
PullSwap(p) ==
    /\ reqs[p].pc = "swap"
    /\ currentNodes' =
          [currentNodes EXCEPT !["liteNode"] = replaceList(@, reqs[p].lite),
                               !["bobNode"] = replaceList(@, reqs[p].bob)]
    /\ reqs' = [reqs EXCEPT ![p] = IdleReq]
    /\ UNCHANGED <<execVars, deployVars, status, watch, now, passcode, network, sel, built, db, socket, fan, snap>>

\* A request that adds Lite nodes and one that deletes servers, while the Lite
\* watch loop runs and peers are selected; every probe is answered, with a
\* tick or with the catch value.
NextRefresh ==
    \/ \E server \in ListedServers : NewServerRequest(1, server, {"liteNode"})
    \/ \E p \in Reqs : InsertLite(p)
    \/ \E p \in Reqs : InsertBob(p)
    \/ \E server \in ListedServers : DeleteServerRequest(2, server)
    \/ \E p \in Reqs : DeleteLite(p)
    \/ \E p \in Reqs : DeleteBob(p)
    \/ \E p \in Reqs : PullReadLite(p)
    \/ \E p \in Reqs : PullReadBob(p)
    \/ \E p \in Reqs : PullThrows(p)
    \/ \E p \in Reqs : PullSwap(p)
    \/ WatchStart("liteNode")
    \/ \E results \in [watch["liteNode"].servers -> SelectLiteInfos] :
          WatchLiteResults(results, watch["liteNode"].servers)
    \/ SelectStart("liteNode", Len(ServerOrder), FALSE)
    \/ SelectReturn

SpecRefresh == Init /\ [][NextRefresh]_vars

\* A request that adds the Lite node h1 and one that deletes the server h1,
\* while the Lite watch loop runs.
NextRemoval ==
    \/ NewServerRequest(1, "h1", {"liteNode"})
    \/ DeleteServerRequest(2, "h1")
    \/ \E p \in Reqs : InsertLite(p)
    \/ \E p \in Reqs : InsertBob(p)
    \/ \E p \in Reqs : DeleteLite(p)
    \/ \E p \in Reqs : DeleteBob(p)
    \/ \E p \in Reqs : PullReadLite(p)
    \/ \E p \in Reqs : PullReadBob(p)
    \/ \E p \in Reqs : PullThrows(p)
    \/ \E p \in Reqs : PullSwap(p)
    \/ WatchStart("liteNode")
    \/ \E results \in [watch["liteNode"].servers -> SelectLiteInfos] :
          WatchLiteResults(results, watch["liteNode"].servers)

\* The store answers every request, so every handler goes on to its end, and
\* the watch loop goes from cycle to cycle (its probes are bounded by their
\* timeout, its sleep by IDLE_TIME).
SpecRemoval ==
    /\ Init
    /\ [][NextRemoval]_vars
    /\ \A p \in Reqs :
          /\ WF_vars(InsertLite(p))
          /\ WF_vars(InsertBob(p))
          /\ WF_vars(DeleteLite(p))
          /\ WF_vars(DeleteBob(p))
          /\ WF_vars(PullReadLite(p))
          /\ WF_vars(PullReadBob(p))
          /\ WF_vars(PullSwap(p))
    /\ WF_vars(WatchStart("liteNode"))
    /\ WF_vars(\E results \in [watch["liteNode"].servers -> SelectLiteInfos] :
                  WatchLiteResults(results, watch["liteNode"].servers))

\* --------------------------------------------------- log subscriptions
\* The call that tails the log for the socket.
LogCall == 1

\* delete SSHService.cleanUpSSHMap[socket.host]
deleteCleanUp(m, h) == [m EXCEPT ![h] = NoCall]

\* socket.on("subscribeToServiceLogs"): the socket's fields are set, then the
\* server document is awaited.
SubscribeToServiceLogs(h) ==
    /\ socket.connected
    /\ socket' = [socket EXCEPT !.isSubscribedToLogs = TRUE, !.host = h]
    /\ UNCHANGED <<execVars, deployVars, currentNodes, status, watch, now, passcode,
                   network, sel, built, db, reqs, fan, snap>>

\* The server document is there: executeCommands(host, ..., ["screen -r <name> -d"], 0, {onData})
SubscribeExecute ==
    /\ socket.connected
    /\ socket.isSubscribedToLogs
    /\ ExecuteCommands(LogCall, socket.host, FALSE, 0, <<"screen -r">>)

\* What the unsubscribe and the disconnect handler do for a log subscription:
\* the closure registered for socket.host is called, the lock of socket.host
\* released and the closure's entry deleted.
cleanUpLogs ==
    /\ calls' = runCleanUp(calls, socket.host)
    /\ isExecutingCommandsMap' = releaseExecutionLock(isExecutingCommandsMap, socket.host)
    /\ cleanUpSSHMap' = deleteCleanUp(cleanUpSSHMap, socket.host)

\* socket.on("unsubscribeFromServiceLogs") with the service the socket subscribed to
UnsubscribeFromServiceLogs ==
    /\ socket.connected
    /\ socket.isSubscribedToLogs
    /\ cleanUpLogs
    /\ UNCHANGED <<deployVars, pollVars>>

\* socket.on("disconnect")
SocketDisconnect ==
    /\ socket.connected
    /\ socket' = [socket EXCEPT !.connected = FALSE]
    /\ IF socket.isSubscribedToLogs
       THEN cleanUpLogs
       ELSE UNCHANGED execVars
    /\ UNCHANGED <<deployVars, currentNodes, status, watch, now, passcode,
                   network, sel, built, db, reqs, fan, snap>>

\* io.on("connection"): the client is back with a new socket, once the log
\* tailing of its last socket has returned.
SocketConnect ==
    /\ ~socket.connected
    /\ calls[LogCall].pc \in {"idle", "returned"}
    /\ socket' = NewSocket
    /\ UNCHANGED <<execVars, deployVars, currentNodes, status, watch, now, passcode,
                   network, sel, built, db, reqs, fan, snap>>

\* A client that follows the log of h1 while an orchestrator request runs its
\* commands on h1.
NextSocket ==
    \/ SubscribeToServiceLogs("h1")
    \/ SubscribeExecute
    \/ UnsubscribeFromServiceLogs
    \/ SocketDisconnect
    \/ SocketConnect
    \/ \E t \in Timeouts : ExecuteCommands(2, "h1", FALSE, t, <<"c1">>)
    \/ \E c \in Calls : PollLock(c)
    \/ \E c \in Calls : Ready(c)
    \/ \E c \in Calls : ShellOpened(c)
    \/ \E c \in Calls : ShellData(c, expectedDoneSignalStr)
    \/ \E c \in Calls : ShellClose(c)
    \/ \E c \in Calls : TimeoutFire(c)
    \/ \E c \in Calls : Finish(c)

SpecSocket == Init /\ [][NextSocket]_vars

\* C32 as stated: an execution other than the socket's log tailing that is
\* inside its session still has its host's lock and its own registered
\* closure, and its connection has not been ended: nothing but the execution
\* itself releases its lock or closes its connection.
C32_SocketEndsOnlyOwnExecution ==
    \A c \in Calls \ {LogCall} :
        calls[c].pc \in {"connecting", "opening", "shell", "exec"} =>
            /\ isExecutingCommandsMap[calls[c].host]
            /\ cleanUpSSHMap[calls[c].host] = c
            /\ ~calls[c].connEnded

\* ---------------------------------------------------- operator commands
\* The routes that fan a command out.
FanRoutes == {"command", "execute-command"}

\* POST /command (shutdown, restart) or POST /execute-command for servers: the
\* command log is inserted with status pending and one SSH call is made per
\* server.
FanOut(route, servers) ==
    /\ fan.route = "none" \/ \A s \in fan.servers : fan.reports[s] # "none"
    /\ servers # {}
    /\ fan' = [NoFan EXCEPT !.route = route, !.servers = servers, !.status = "pending"]
    /\ UNCHANGED <<execVars, deployVars, currentNodes, status, watch, now, passcode,
                   network, sel, built, db, reqs, socket, snap>>

\* POST /command, the then-handler's updateCommandLogToDb: failed for a failed
\* server; for a successful one completed when it is the last to report and
\* pending otherwise.
commandLogStatus(old, executed, total, isSuccess) ==
    IF ~isSuccess THEN "failed"
    ELSE IF executed = total THEN "completed" ELSE "pending"

\* POST /execute-command, the two then-handlers: databaseUpdater writes
\* completed or failed for the last report and pending otherwise, then
\* updateCommandLogStatus writes the final status when all have reported.
executeLogStatus(executed, total, haveAtleastOneError) ==
    IF executed = total
    THEN IF haveAtleastOneError THEN "failed" ELSE "completed"
    ELSE "pending"

\* The SSH call for server has returned isSuccess and the route's handlers
\* have run; the store applies the updates in the order they are issued.
FanReport(server, isSuccess) ==
    /\ fan.route # "none"
    /\ server \in fan.servers
    /\ fan.reports[server] = "none"
    /\ LET executed == fan.commandsExecuted + 1
           total == Cardinality(fan.servers)
           anyError == fan.haveAtleastOneError \/ ~isSuccess
       IN  fan' = [fan EXCEPT
               !.reports[server] = IF isSuccess THEN "ok" ELSE "failed",
               !.commandsExecuted = executed,
               !.haveAtleastOneError = IF fan.route = "execute-command" THEN anyError ELSE @,
               !.status = IF fan.route = "command"
                          THEN commandLogStatus(@, executed, total, isSuccess)
                          ELSE executeLogStatus(executed, total, anyError)]
    /\ UNCHANGED <<execVars, deployVars, currentNodes, status, watch, now, passcode,
                   network, sel, built, db, reqs, socket, snap>>

NextFan ==
    \/ \E route \in FanRoutes, servers \in SUBSET Servers : FanOut(route, servers)
    \/ \E server \in Servers, isSuccess \in BOOLEAN : FanReport(server, isSuccess)

SpecFan == Init /\ [][NextFan]_vars

\* C39 as stated: once every server of a fanned-out command has reported, the
\* command log's status is failed if a server failed and completed if all
\* succeeded, whatever the order of the reports.
C39_FinalStatusOfFanOut ==
    (fan.route # "none" /\ \A s \in fan.servers : fan.reports[s] # "none") =>
        fan.status = IF \E s \in fan.servers : fan.reports[s] = "failed"
                     THEN "failed" ELSE "completed"

\* The same for POST /execute-command alone.
ExecuteRouteFinalStatus ==
    (fan.route = "execute-command" /\ \A s \in fan.servers : fan.reports[s] # "none") =>
        fan.status = IF \E s \in fan.servers : fan.reports[s] = "failed"
                     THEN "failed" ELSE "completed"

\* -------------------------------------------------- snapshot scheduler
\* WINDOW_SAVE_INTERVAL / SAVE_INTERVAL: the save rounds of one window.
RoundsPerWindow == 12

\* Math.ceil(length / (WINDOW_SAVE_INTERVAL / SAVE_INTERVAL))
nodesPerSave(length) == (length + RoundsPerWindow - 1) \div RoundsPerWindow

\* The elements of a list.
Range(list) == {list[i] : i \in 1..Len(list)}

\* The server documents of the registered Lite nodes whose operator has the
\* cron job enabled, in the order the store lists them.
EligibleDocs(enabled) == SelectSeq(ServerOrder, LAMBDA s : s \in currentNodes["liteNode"] \cap enabled)

\* Math.ceil(Math.random() * length) with Math.random() in [0, 1): 0 .. length.
ceilIndices(length) == 0..length

\* list[index] for a 0-based index: undefined past the end.
at(list, index) == IF index + 1 \in 1..Len(list) THEN list[index + 1] ELSE "undefined"

\* list.splice(index, 1) for a 0-based index: nothing is removed past the end.
splice(list, index) ==
    [i \in 1..(IF index + 1 \in 1..Len(list) THEN Len(list) - 1 ELSE Len(list)) |->
        IF i < index + 1 THEN list[i] ELSE list[i + 1]]

\* The top of a round. With no more pending nodes than one round saves, the
\* window is set up again: the pending nodes left are saved now and the
\* pending list is filled from the registered Lite nodes.
SnapTop(enabled) ==
    /\ snap.pc = "top"
    /\ IF Len(snap.currentPendingNodes) <= snap.numberOfNodesPerSave
       THEN LET liteNodesDbDocs == EligibleDocs(enabled)
            IN  snap' = [pc |-> "saving",
                         numberOfNodesPerSave |-> nodesPerSave(Len(liteNodesDbDocs)),
                         nodesToSave |-> snap.currentPendingNodes,
                         currentPendingNodes |-> liteNodesDbDocs,
                         last |-> snap.last]
       ELSE snap' = [snap EXCEPT !.pc = "selecting", !.nodesToSave = <<>>]
    /\ UNCHANGED <<execVars, deployVars, currentNodes, status, watch, now, passcode,
                   network, sel, built, db, reqs, socket, fan>>

\* One iteration of while (nodesToSave.length < numberOfNodesPerSave) with the
\* index that was drawn.
SnapSelect(randomIndex) ==
    /\ snap.pc = "selecting"
    /\ randomIndex \in ceilIndices(Len(snap.currentPendingNodes))
    /\ LET nodesToSave == Append(snap.nodesToSave, at(snap.currentPendingNodes, randomIndex))
       IN  snap' = [snap EXCEPT
               !.nodesToSave = nodesToSave,
               !.currentPendingNodes = splice(@, randomIndex),
               !.pc = IF Len(nodesToSave) < snap.numberOfNodesPerSave
                      THEN "selecting" ELSE "saving"]
    /\ UNCHANGED <<execVars, deployVars, currentNodes, status, watch, now, passcode,
                   network, sel, built, db, reqs, socket, fan>>

\* for (let node of nodesToSave): node.server of an undefined node throws,
\* the catch block logs the error and the loop starts its next round at once;
\* otherwise the round ends with the sleep.
SnapSave ==
    /\ snap.pc = "saving"
    /\ snap' = [snap EXCEPT !.pc = "top",
                            !.last = IF "undefined" \in Range(snap.nodesToSave)
                                     THEN "threw" ELSE "saved"]
    /\ UNCHANGED <<execVars, deployVars, currentNodes, status, watch, now, passcode,
                   network, sel, built, db, reqs, socket, fan>>

NextSnap ==
    \/ \E lite \in LiteLists : PullServerLists(lite, {}, [s \in Servers |-> ""])
    \/ \E enabled \in {Servers, Servers \ {"h3"}} : SnapTop(enabled)
    \/ \E randomIndex \in 0..Len(ServerOrder) : SnapSelect(randomIndex)
    \/ SnapSave

SpecSnap == Init /\ [][NextSnap]_vars

\* C40 as stated: every node chosen for a save round is an element of the
\* pending list at that moment (the index drawn is inside the list) and is no
\* longer in the pending list afterwards.
C40_SelectedFromPending ==
    [][(snap.pc = "selecting" /\ snap'.nodesToSave # snap.nodesToSave) =>
          LET node == snap'.nodesToSave[Len(snap'.nodesToSave)]
          IN  /\ node \in Range(snap.currentPendingNodes)
              /\ node \notin Range(snap'.currentPendingNodes)]_vars

\* C31: the registered lists are replaced wholesale. Whenever a list
\* changes, both lists become the complete lists that one pullServerLists
\* call has read; and what a poll cycle or a peer selection takes at its
\* start is the list as it is at that moment. A reader therefore has the
\* complete list from before a refresh or the complete list from after it.
C31_ListsSwappedWhole ==
    [][/\ currentNodes' # currentNodes =>
             \E p \in Reqs :
                 /\ reqs[p].pc = "swap"
                 /\ currentNodes' = [liteNode |-> reqs[p].lite, bobNode |-> reqs[p].bob]
       /\ \A p \in Reqs :
             /\ (reqs[p].pc = "readLite" /\ reqs'[p].pc = "readBob") =>
                    reqs'[p].lite = db["liteNode"]
             /\ (reqs[p].pc = "readBob" /\ reqs'[p].pc = "swap") =>
                    reqs'[p].bob = db["bobNode"] /\ reqs'[p].lite = reqs[p].lite
       /\ \A k \in Services :
             (watch[k].pc = "idle" /\ watch'[k].pc = "probing") =>
                 watch'[k].servers = currentNodes[k]
       /\ (sel.pc = "idle" /\ sel'.pc # "idle") =>
             {sel'.servers[i] : i \in 1..Len(sel'.servers)} = currentNodes[sel'.kind]]_vars

\* A poll cycle that took the list {h1} is waiting for its probes while a
\* refresh has put the list {h2} in its place.
C31_CycleHoldsOldList ==
    /\ watch["liteNode"].pc = "probing"
    /\ watch["liteNode"].servers = {"h1"}
    /\ currentNodes["liteNode"] = {"h2"}

\* -------------------------------------------------- concurrent deploys
\* C33 as stated: of two deployNode calls for the same (host, service) that
\* overlap, also when both have read the stored status before either has
\* written setting_up, at most one goes on to the host lock and the commands.
C33_OneOfTwoDeploysProceeds ==
    \A o1, o2 \in Ops :
        (/\ o1 # o2
         /\ ops[o1].kind = "deploy" /\ ops[o2].kind = "deploy"
         /\ ops[o1].host = ops[o2].host /\ ops[o1].service = ops[o2].service
         /\ ops[o1].currentServer[ops[o1].service] # "setting_up"
         /\ ops[o2].currentServer[ops[o2].service] # "setting_up") =>
            ~(ops[o1].pc \in {"waiting", "running"} /\ ops[o2].pc \in {"waiting", "running"})

\* C34 as stated: while a deploy of a (host, service) is under way and the
\* stored status is setting_up, a second deploy request for the same (host,
\* service) that has read setting_up leaves the stored status as it is.
C34_RejectedDeployLeavesStatus ==
    [][\A o1, o2 \in Ops :
          (/\ o1 # o2
           /\ ops[o1].kind = "deploy" /\ ops[o2].kind = "deploy"
           /\ ops[o1].host = ops[o2].host /\ ops[o1].service = ops[o2].service
           /\ ops[o1].pc \in {"waiting", "running"}
           /\ ops[o2].currentServer[ops[o2].service] = "setting_up"
           /\ ops[o2].pc \in {"updateOne", "waiting", "running", "handler"}
           /\ deployStatus[ops[o1].host][ops[o1].service] = "setting_up") =>
              deployStatus'[ops[o1].host][ops[o1].service] = "setting_up"]_vars

\* C35 as stated: the setting_up write of a deployNode call leaves the stored
\* status of the host's other service as it is, also when a call for the other
\* service runs at the same time.
C35_OtherServiceStatusKept ==
    [][\A o \in Ops :
          (/\ ops[o].kind = "deploy"
           /\ ops[o].pc = "updateOne"
           /\ ops'[o].pc # "updateOne") =>
              \A s \in Services \ {ops[o].service} :
                  deployStatus'[ops[o].host][s] = deployStatus[ops[o].host][s]]_vars

====
